---------------------------- MODULE Spec2Model ----------------------------
(***************************************************************************)
(* Motion-command supervisor and cooperative stop gate of the hexapod web  *)
(* controller (src/hexweb7.py): the single command slot, the background    *)
(* movement worker that drains it, the STOP_ALL gate wrapped around        *)
(* servo.set_servo_angle, the pan/tilt handler and the request routes.     *)
(*                                                                         *)
(* Granularity.  Every `with lock:` block of a thread is one step, taken   *)
(* only while the lock is free, except the block of stopall_route, which   *)
(* is modelled statement by statement with the lock held in between.       *)
(* Every statement a thread executes outside a `with lock:` block (an      *)
(* actuator call, the unlocked read of STOP_ALL inside the gate) is a step *)
(* of its own, so that other threads interleave exactly where the Python   *)
(* threads can.  time.sleep only delays a thread and is no step.           *)
(***************************************************************************)
EXTENDS Integers, Sequences, FiniteSets, Bags, TLC

\* ------------------------------------------------------------ constants
TABLETOP_Z == 40
RESET_Z == 15
MAX_Z == 45
MIN_Z == -30
PAN_PORT == 24
TILT_PORT == 25
\* hexweb8.py lines 35-40: the ports of the phone rig and of the built-in head.
PHONE_PAN_PORT == 24
PHONE_TILT_PORT == 25
HEAD_PAN_PORT == 6
HEAD_TILT_PORT == 7
CENTER_ANGLE == 90
ANGLE_LO == 0
ANGLE_HI == 180
HEIGHT_STEP == 2
DEFAULT_STEP == 3
\* led_breathe: 21 levels up and 21 down per cycle (line 284), 2 cycles by
\* default (line 279), 1 cycle when a preset calls it (lines 412 and 432).
BREATHE_LEVELS == 42
BREATHE_CYCLES == 2
PRESET_BREATHE_CYCLES == 1
\* led_rainbow: steps=60, cycles=1 (line 310).
RAINBOW_STEPS == 60
\* hexweb8.py battery_route (lines 260, 262): below 6.5 V the battery is LOW,
\* below 7.4 V OK; voltages are counted in hundredths of a volt (the reply
\* rounds to two decimals).
LOW_VOLTS == 650
FULL_VOLTS == 740
\* hexweb8.py ultra_route (lines 277, 279): below 10 cm VERY CLOSE, below 25 cm
\* Close; distances are counted in tenths of a centimetre (the reply rounds
\* to one decimal).  Line 274: -1.0 stands for a failed read.
VERY_CLOSE_CM == 100
CLOSE_CM == 250
NO_ECHO == -10
\* hexweb8.py led_route: colour components are clamped to 0..255 (lines
\* 303-305); _alert flashes 3 times (line 320), triple beeps 3 times (line 360).
LED_MAX == 255
ALERT_FLASHES == 3
TRIPLE_BEEPS == 3

\* ------------------------------------------------------------ bounds
\* Inbound requests (cmd, stopall, pt, preset) the environment issues in one run.
MaxReq == 4
\* Raise requests of the five-raises scenario.
MaxRaise == 5
\* Consecutive stopall requests that are told apart.
MaxStops == 2
\* Preset sequencer threads alive at the same time.
MaxSeq == 1
SeqIds == 1..MaxSeq
\* Threads alive at the same time in the runs about two overlapping sequences.
MaxPair == 2
PairIds == 1..MaxPair
\* Inbound requests of a run on the routes of hexweb8.py.
MaxRigReq == 3
\* Preset names a /preset request carries ("demo9" is not in the registry).
PresetNames == {"demo1", "demo2", "demo3", "demo9"}

\* The inputs the runs with presets draw from: fewer requests, since every
\* request interleaves with each position of the sequencers.
MaxPresetReq == 2
PresetInputs == {"demo1"}
PresetUnknownInputs == {"demo9"}
PresetKeyInputs == {"w"}
PresetPtInputs == {"center", "pan_left", "relax"}
PresetLedInputs == {"solid", "blink"}
PresetBuzzerInputs == {"on", "pulse"}
\* The keys the runs over the whole height range draw from.
HeightKeyInputs == {"w", "i", "k", "t", "r"}

\* Keys a /cmd request carries: all ten mapped keys and one unmapped key.
Keys == {"w", "s", "d", "a", "j", "l", "i", "k", "t", "r", "z"}
\* The keys the bounded runs draw from.
KeyInputs == {"w", "a", "i", "t", "z"}
\* cmd values a /pt request carries ("nod" is not a pan/tilt command).
PtCmds == {"center", "relax", "pan_left", "pan_right", "tilt_up", "tilt_down", "nod"}
PtInputs == {"center", "relax", "pan_left", "tilt_down", "nod"}
\* step values a /pt request carries.
StepInputs == {DEFAULT_STEP, 100}

\* Python's None: an absent value.
None == "None"

\* mode values a /led request carries in the runs of the LED effects (None:
\* the request names no mode).
LedInputs == {"off", "solid", "blink", "police", "breathe", "rainbow", "Breathe", "strobe", None}
\* mode values a /buzzer request carries ("hum" is not a buzzer mode).
BuzzerInputs == {"pulse", "on", "off", "hum", None}
\* The modes led_set knows (lines 343-354).
LedModes == {"off", "solid", "blink", "breathe", "police", "rainbow"}
\* The keys of the runs with failing actuator calls and with the shutdown.
FailKeyInputs == {"w", "i"}
\* [min, max] pairs a pan_tilt_limits.json configures (each with min <= max):
\* the defaults, a range above the centre and a range below it.
LimitInputs == {<<ANGLE_LO, ANGLE_HI>>, <<100, ANGLE_HI>>, <<ANGLE_LO, 60>>}
\* cmd values of the runs over the configured limits.
LimitPtInputs == {"center", "relax", "pan_left", "pan_right", "tilt_up", "tilt_down"}
\* step values of those runs: coarse steps, so that both ends of every range
\* are reached within a few requests.
LimitStepInputs == {30, 100}
\* The runs of repeated pan/tilt moves: the four moves, one positive step
\* that divides the distance from the centre to either default limit.
FloorPtInputs == {"pan_left", "pan_right", "tilt_up", "tilt_down"}
FloorStepInputs == {30}


VARIABLES
    \* ---- program state
    STOP_ALL,        \* module global STOP_ALL
    current_cmd,     \* state.current_cmd (None or a command name)
    body_z,          \* state.body_z
    pan_angle,       \* state.pan_angle
    tilt_angle,      \* state.tilt_angle
    active_preset,   \* state.active_preset
    thread_running,  \* state.thread_running
    lock,            \* threading.Lock(): "free" or the thread holding it
    PAN_MIN, PAN_MAX, TILT_MIN, TILT_MAX,   \* limits loaded at import
    OFFSETS,         \* servo offsets loaded at import: port -> offset
    program,         \* the revision of the program the run is of: "hexweb5",
                     \* "hexweb7" or "hexweb8"
    \* ---- hexweb8.py: the tracked angles of its two pan/tilt rigs
    phone_pan_angle, phone_tilt_angle,
    head_pan_angle, head_tilt_angle,
    led_last_color,  \* hexweb8.py state.led_last_color: [r, g, b]
    flight,          \* hexweb8.py: the /cmd and /led requests that have left
                     \* their critical section and have not been answered (a bag)
    \* ---- movement_worker thread
    wpc,             \* position of the worker in its loop
    cmd,             \* its local cmd
    z,               \* its local z
    \* ---- stopall_route handler in progress
    spc,
    \* ---- run_preset._run threads
    seq,             \* per sequencer thread: preset name, position in its
                     \* script (0: no thread), position inside pt_to, pt_to's p, t
    \* ---- history variables (not program state)
    quota,           \* number of inbound requests the environment issues
    reqs,            \* number of inbound requests issued so far
    cmd_id,          \* request number that wrote current_cmd (0: none)
    cmd_read,        \* the worker has read the present slot entry
    w_id,            \* request number of the command in the worker's cmd
    w_stale,         \* a stopall returned after the worker read its cmd
    overwritten,     \* requests whose command was overwritten in the slot unread
    cancelled,       \* requests whose command stopall removed from the slot unread
    cleared_by,      \* the function whose step last turned STOP_ALL from True to False
    resume,          \* request number of a /cmd that set a command after a
                     \* stop, until another request arrives or the worker reads the slot
    stops,           \* stopall requests that have returned since the last
                     \* request of another kind (counted up to MaxStops)
    act,             \* actuator calls issued by the last step, in order
    \* ---- the last /sensors, /preset or /led request
    resp             \* its response (NoResponse: no such request yet)

limits == <<PAN_MIN, PAN_MAX, TILT_MIN, TILT_MAX, OFFSETS, program>>
rigs == <<phone_pan_angle, phone_tilt_angle, head_pan_angle, head_tilt_angle>>
\* What no handler of hexweb7.py writes: the loaded configuration, and the
\* rig angles, the last LED colour and the requests in flight that only
\* handlers of hexweb8.py write.
cfg == <<limits, rigs, led_last_color, flight>>
shared == <<STOP_ALL, current_cmd, body_z, pan_angle, tilt_angle, active_preset,
            thread_running>>
worker == <<wpc, cmd, z>>
hist == <<quota, reqs, cmd_id, cmd_read, w_id, w_stale, overwritten, cancelled, cleared_by,
         resume>>
vars == <<shared, lock, cfg, worker, spc, seq, hist, stops, act, resp>>

\* ------------------------------------------------------------ environment
\* quota > 0: the environment issues at most quota requests and numbers them
\* 1, 2, ...; quota = 0: it issues any number of requests and none is numbered.
CanRequest == quota = 0 \/ reqs < quota
Counted(n) == IF quota = 0 THEN 0 ELSE n + 1

\* ------------------------------------------------------------ actuator calls
\* One call on the actuator interface.  op: "run_gait", "move_position",
\* "relax", "set_servo_angle" (a write that reached the real
\* _orig_set_servo_angle) or "dropped" (a write the gate returned from without
\* forwarding it).  by: the calling thread.  id: the request that wrote the
\* command (worker calls) or the slot of the effect thread (LED writes).
Call(op, by, name, id, data, port, val) ==
    [op |-> op, by |-> by, name |-> name, id |-> id, data |-> data,
     port |-> port, val |-> val]

RelaxCall(by) == Call("relax", by, None, 0, <<>>, 0, 0)
GaitCall(name, id, data) == Call("run_gait", "worker", name, id, data, 0, 0)
MoveCall(name, id, zz) == Call("move_position", "worker", name, id, <<>>, 0, zz)
ServoCall(by, port, angle) == Call("set_servo_angle", by, None, 0, <<>>, port, angle)
DropCall(by, port, angle) == Call("dropped", by, None, 0, <<>>, port, angle)

\* A sensor read: name is what the driver call did ("number": returned a
\* number; "tuple": returned a tuple whose first element is a number; "empty":
\* returned an empty tuple; "text": returned something float() rejects;
\* "raises": raised), val the number it carried.
SensorKinds == {"number", "tuple", "empty", "text", "raises"}
BatteryReads == {Call("read_battery_voltage", "sensors", k, 0, <<>>, 0, 7) : k \in SensorKinds}
DistanceReads == {Call("get_distance", "sensors", k, 0, <<>>, 0, 30) : k \in SensorKinds}

\* A JSON value of a response: <<>> is null, <<v>> the number v.
Null == <<>>
\* No /sensors request has returned yet.
NoResponse == [status |-> 0, ok |-> FALSE, battery |-> Null, distance |-> Null, error |-> <<>>,
               message |-> None]
\* jsonify({"ok": ok, "message": message}), status
Reply(status, ok, message) ==
    [status |-> status, ok |-> ok, battery |-> Null, distance |-> Null, error |-> <<>>,
     message |-> message]

\* ------------------------------------------------------------ pure functions
Max(a, b) == IF a >= b THEN a ELSE b
Min(a, b) == IF a <= b THEN a ELSE b

\* Variant: the upper limit is not applied.
clamp_lo(v, lo, hi) == Max(lo, v)

\* clamp(v, lo, hi) = max(lo, min(hi, v))
clamp(v, lo, hi) == Max(lo, Min(hi, v))

\* Variant: the sum is not saturated.
with_offset_raw(port, angle) ==
    LET off == IF port \in DOMAIN OFFSETS THEN OFFSETS[port] ELSE 0
    IN  angle + off

\* with_offset(port, angle): OFFSETS.get(port, 0), add, saturate to 0..180
with_offset(port, angle) ==
    LET off == IF port \in DOMAIN OFFSETS THEN OFFSETS[port] ELSE 0
        a == angle + off
    IN  IF a < ANGLE_LO THEN ANGLE_LO ELSE IF a > ANGLE_HI THEN ANGLE_HI ELSE a

\* map_key_to_cmd(key)[0]
map_key_to_cmd(key) ==
    CASE key = "w" -> "fwd"
      [] key = "s" -> "back"
      [] key = "d" -> "right"
      [] key = "a" -> "left"
      [] key = "j" -> "turn_left"
      [] key = "l" -> "turn_right"
      [] key = "i" -> "raise"
      [] key = "k" -> "lower"
      [] key = "t" -> "tabletop"
      [] key = "r" -> "reset"
      [] OTHER -> None

GaitCmds == {"fwd", "back", "right", "left", "turn_left", "turn_right"}
PoseCmds == {"raise", "lower", "tabletop", "reset"}

\* The argument list movement_worker passes to run_gait for each gait command.
GaitData(c) ==
    CASE c = "fwd"        -> <<"CMD_MOVE", "1", "0", "35", "10", "0">>
      [] c = "back"       -> <<"CMD_MOVE", "2", "0", "-35", "10", "10">>
      [] c = "right"      -> <<"CMD_MOVE", "1", "35", "0", "10", "0">>
      [] c = "left"       -> <<"CMD_MOVE", "1", "-35", "0", "10", "0">>
      [] c = "turn_left"  -> <<"CMD_MOVE", "1", "0", "0", "10", "20">>
      [] c = "turn_right" -> <<"CMD_MOVE", "1", "0", "0", "10", "-20">>
      [] OTHER -> <<>>

\* Variant: raise and lower are not clamped.
PoseZ_unclamped(c, bz) ==
    CASE c = "raise"    -> bz + HEIGHT_STEP
      [] c = "lower"    -> bz - HEIGHT_STEP
      [] c = "tabletop" -> clamp(TABLETOP_Z, MIN_Z, MAX_Z)
      [] c = "reset"    -> clamp(RESET_Z, MIN_Z, MAX_Z)
      [] OTHER -> bz

\* The body_z a pose command computes under the lock.
PoseZ(c, bz) ==
    CASE c = "raise"    -> clamp(bz + HEIGHT_STEP, MIN_Z, MAX_Z)
      [] c = "lower"    -> clamp(bz - HEIGHT_STEP, MIN_Z, MAX_Z)
      [] c = "tabletop" -> clamp(TABLETOP_Z, MIN_Z, MAX_Z)
      [] c = "reset"    -> clamp(RESET_Z, MIN_Z, MAX_Z)
      [] OTHER -> bz

\* guarded_set_servo_angle(channel, angle) run in one piece (by a caller that
\* holds the lock): the calls that reach the real setter.
guarded_set_servo_angle(stop, by, channel, angle) ==
    IF stop THEN <<DropCall(by, channel, angle)>> ELSE <<ServoCall(by, channel, angle)>>

\* ------------------------------------------------------------ presets
\* The three scripts of run_preset._run (lines 390-456) as straight-line code:
\* each loop is unrolled, IfStop(k) is `if STOP_ALL: break` with k the first
\* instruction after the loop it leaves, and the sleeps are dropped.
Instr(op, s, pan, tilt, upd_tilt, to) ==
    [op |-> op, s |-> s, pan |-> pan, tilt |-> tilt, upd_tilt |-> upd_tilt, to |-> to]
Op(op) == Instr(op, None, 0, 0, FALSE, 0)
LedSet(mode) == Instr("led_set", mode, 0, 0, FALSE, 0)
SetCmd(c) == Instr("set_cmd", c, 0, 0, FALSE, 0)
IfStop(to) == Instr("if_stop", None, 0, 0, FALSE, to)
\* pt_to(pan=.., tilt=..); upd_tilt is `tilt is not None` (pan is always given)
PtTo(pan, tilt, upd_tilt) == Instr("pt_to", None, pan, tilt, upd_tilt, 0)

Demo1 == <<
    Op("buzzer_pulse"),           \* 1
    LedSet("solid"),              \* 2
    SetCmd("raise"),              \* 3
    IfStop(22),                   \* 4
    SetCmd("fwd"),                \* 5
    PtTo(60, 0, FALSE),           \* 6
    PtTo(120, 0, FALSE),          \* 7
    IfStop(22),                   \* 8
    SetCmd("fwd"),                \* 9
    PtTo(60, 0, FALSE),           \* 10
    PtTo(120, 0, FALSE),          \* 11
    Op("buzzer_pulse"),           \* 12
    IfStop(22),                   \* 13
    SetCmd("fwd"),                \* 14
    PtTo(60, 0, FALSE),           \* 15
    PtTo(120, 0, FALSE),          \* 16
    IfStop(22),                   \* 17
    SetCmd("fwd"),                \* 18
    PtTo(60, 0, FALSE),           \* 19
    PtTo(120, 0, FALSE),          \* 20
    Op("buzzer_pulse"),           \* 21
    PtTo(90, 90, TRUE),           \* 22
    SetCmd("reset"),              \* 23
    Op("led_breathe"),            \* 24
    Op("finally")                 \* 25
    >>

Demo2 == <<
    Op("buzzer_pulse"),           \* 1
    LedSet("solid"),              \* 2
    SetCmd("tabletop"),           \* 3
    IfStop(31),                   \* 4
    SetCmd("turn_left"),          \* 5
    IfStop(12),                   \* 6
    PtTo(60, 0, FALSE),           \* 7
    IfStop(12),                   \* 8
    PtTo(120, 0, FALSE),          \* 9
    IfStop(12),                   \* 10
    PtTo(90, 0, FALSE),           \* 11
    Op("buzzer_pulse"),           \* 12
    IfStop(31),                   \* 13
    SetCmd("turn_left"),          \* 14
    IfStop(21),                   \* 15
    PtTo(60, 0, FALSE),           \* 16
    IfStop(21),                   \* 17
    PtTo(120, 0, FALSE),          \* 18
    IfStop(21),                   \* 19
    PtTo(90, 0, FALSE),           \* 20
    Op("buzzer_pulse"),           \* 21
    IfStop(31),                   \* 22
    SetCmd("turn_left"),          \* 23
    IfStop(30),                   \* 24
    PtTo(60, 0, FALSE),           \* 25
    IfStop(30),                   \* 26
    PtTo(120, 0, FALSE),          \* 27
    IfStop(30),                   \* 28
    PtTo(90, 0, FALSE),           \* 29
    Op("buzzer_pulse"),           \* 30
    SetCmd("reset"),              \* 31
    Op("led_breathe"),            \* 32
    Op("finally")                 \* 33
    >>

Demo3 == <<
    Op("buzzer_pulse"),           \* 1
    LedSet("rainbow"),            \* 2
    SetCmd("raise"),              \* 3
    IfStop(16),                   \* 4
    SetCmd("fwd"),                \* 5
    IfStop(16),                   \* 6
    SetCmd("right"),              \* 7
    IfStop(16),                   \* 8
    SetCmd("back"),               \* 9
    IfStop(16),                   \* 10
    SetCmd("left"),               \* 11
    IfStop(16),                   \* 12
    SetCmd("turn_left"),          \* 13
    IfStop(16),                   \* 14
    SetCmd("turn_right"),         \* 15
    IfStop(22),                   \* 16
    Op("buzzer_pulse"),           \* 17
    IfStop(22),                   \* 18
    Op("buzzer_pulse"),           \* 19
    IfStop(22),                   \* 20
    Op("buzzer_pulse"),           \* 21
    SetCmd("reset"),              \* 22
    Op("led_off"),                \* 23
    Op("finally")                 \* 24
    >>

\* The LED effect threads led_blink._blink (lines 269-276) and
\* led_police._police (lines 295-307), unrolled the same way; an effect thread
\* ends with "end".
LedSolid(colour) == Instr("led_solid", colour, 0, 0, FALSE, 0)

\* one pass of `for _ in range(times)`, leaving the loop at instruction `out`
BlinkPass(out) == <<IfStop(out), LedSolid("rgb"), Op("fx_off")>>
\* times = 3
LedBlink == BlinkPass(10) \o BlinkPass(10) \o BlinkPass(10) \o <<Op("end")>>

\* one pass of `for _ in range(cycles)`
PolicePass(out) ==
    <<IfStop(out), LedSolid("red"), Op("fx_off"), LedSolid("blue"), Op("fx_off")>>
\* cycles = 6, then led_off()
LedPolice ==
    PolicePass(31) \o PolicePass(31) \o PolicePass(31) \o PolicePass(31)
    \o PolicePass(31) \o PolicePass(31) \o <<Op("fx_off"), Op("end")>>

\* led_breathe._breathe (lines 280-291) with c cycles.  Each cycle is a stop
\* check that leaves the outer loop (to the final led_off) followed by
\* BREATHE_LEVELS passes of a stop check that leaves the inner loop (to the
\* next cycle, or to the final led_off after the last one) and a led_solid.
BreatheCycleLen == 1 + 2 * BREATHE_LEVELS
LedBreathe(c) ==
    [k \in 1..(c * BreatheCycleLen + 2) |->
        IF k = c * BreatheCycleLen + 2 THEN Op("end")
        ELSE IF k = c * BreatheCycleLen + 1 THEN Op("fx_off")
        ELSE LET j == (k - 1) \div BreatheCycleLen
                 o == (k - 1) % BreatheCycleLen
             IN  IF o = 0 THEN IfStop(c * BreatheCycleLen + 1)
                 ELSE IF o % 2 = 1 THEN IfStop((j + 1) * BreatheCycleLen + 1)
                 ELSE LedSolid("rgb")]

\* led_rainbow._rainbow (lines 311-338): one cycle of RAINBOW_STEPS passes of
\* a stop check that leaves the inner loop and a led_solid, then led_off().
LedRainbow ==
    [k \in 1..(2 * RAINBOW_STEPS + 2) |->
        IF k = 2 * RAINBOW_STEPS + 2 THEN Op("end")
        ELSE IF k = 2 * RAINBOW_STEPS + 1 THEN Op("fx_off")
        ELSE IF k % 2 = 1 THEN IfStop(2 * RAINBOW_STEPS + 1)
        ELSE LedSolid("rgb")]

\* buzzer_pulse._run (lines 251-256): buzzer on, sleep, buzzer off; the
\* thread ends with its last statement.
BuzzerPulse == <<Op("buzz_on"), Op("buzz_off")>>

\* hexweb8.py led_route._alert (lines 319-324): ALERT_FLASHES passes of
\* apply_color(red), sleep, apply_color(off), sleep.
ApplyColor(rgb) == Instr("apply_color", rgb, 0, 0, FALSE, 0)
AlertPass == <<ApplyColor(<<LED_MAX, 0, 0>>), ApplyColor(<<0, 0, 0>>)>>
RECURSIVE Repeat(_, _)
Repeat(pass, n) == IF n = 0 THEN <<>> ELSE pass \o Repeat(pass, n - 1)
LedAlert == Repeat(AlertPass, ALERT_FLASHES) \o <<Op("end")>>

\* hexweb8.py beep_route: beep_short (lines 338-343) and beep_long (lines
\* 345-350) are buzzer on, sleep, buzzer off; triple (lines 359-362) calls
\* beep_short TRIPLE_BEEPS times.
BeepPass == <<Op("beep_on"), Op("beep_off")>>
BeepOnce == BeepPass \o <<Op("end")>>
BeepTriple == Repeat(BeepPass, TRIPLE_BEEPS) \o <<Op("end")>>

Script(name) ==
    CASE name = "demo1" -> Demo1
      [] name = "demo2" -> Demo2
      [] name = "demo3" -> Demo3
      [] name = "blink" -> LedBlink
      [] name = "police" -> LedPolice
      [] name = "breathe" -> LedBreathe(BREATHE_CYCLES)
      [] name = "breathe1" -> LedBreathe(PRESET_BREATHE_CYCLES)
      [] name = "rainbow" -> LedRainbow
      [] name = "buzzer" -> BuzzerPulse
      [] name = "alert" -> LedAlert
      [] name = "beep_short" -> BeepOnce
      [] name = "beep_long" -> BeepOnce
      [] name = "triple" -> BeepTriple

\* The instructions of a preset script that start an effect thread.
IsEffect(instr) ==
    \/ instr.op \in {"buzzer_pulse", "led_breathe"}
    \/ instr.op = "led_set" /\ instr.s = "rainbow"

\* The thread an effect trigger of a preset script starts.
EffectThread(instr) ==
    CASE instr.op = "buzzer_pulse" -> "buzzer"
      [] instr.op = "led_breathe" -> "breathe1"
      [] instr.op = "led_set" -> instr.s

\* stopped (history, of the threads requests start): the thread has found
\* STOP_ALL set at one of its stop checks.
\* owes (history, of the threads requests start): a /stopall has returned
\* while the thread was running, and the thread has not made a stop check
\* since.
NoThread == [name |-> None, pc |-> 0, sub |-> "top", p |-> 0, t |-> 0, stopped |-> FALSE,
             owes |-> FALSE]
\* Thread slots: those of the threads requests start (/preset, /led,
\* /buzzer), numbered 1, 2, .., and those of the threads other threads start
\* (buzzer_pulse, led_rainbow, led_breathe called by a preset sequencer),
\* numbered -1, -2, ..: one for each such thread alive, so that starting one
\* never waits for a slot.
ReqSlots(threads) == {i \in DOMAIN threads : i > 0}
KidSlots(threads) == {i \in DOMAIN threads : i < 0}
Abs(i) == IF i < 0 THEN 0 - i ELSE i
\* The thread a call record names: the slot of a thread a request started, 0
\* for a thread in KidSlots.
ThreadId(i) == IF i > 0 THEN i ELSE 0
\* threading.Thread(target=..).start(): the thread takes the first free slot
\* of its pool and stands at its first instruction.
FirstFree(threads, pool, i) ==
    /\ i \in pool
    /\ threads[i] = NoThread
    /\ \A j \in pool : Abs(j) < Abs(i) => threads[j] # NoThread
Started(name) == [NoThread EXCEPT !.name = name, !.pc = 1]
\* A thread object that is about to be started: run_preset has left its
\* critical section (line 371) and has not reached line 458.
Pending(name) == [NoThread EXCEPT !.name = name, !.sub = "start"]
\* The sequencer in thread record r has an effect thread still to start.
EffectsAhead(r) ==
    /\ r.name \in {"demo1", "demo2", "demo3"}
    /\ \E pc \in DOMAIN Script(r.name) : pc >= r.pc /\ IsEffect(Script(r.name)[pc])

\* The threads in the slots of KidSlots run the same few scripts and nothing
\* tells two of them at the same position apart: they are kept in the order
\* of KidKey.
KidNameIx(name) ==
    CASE name = "buzzer" -> 1
      [] name = "breathe1" -> 2
      [] name = "rainbow" -> 3
      [] OTHER -> 0
KidKeyPcs == 1 + Len(LedRainbow) + Len(LedBreathe(PRESET_BREATHE_CYCLES))
KidKey(r) == KidNameIx(r.name) * KidKeyPcs + r.pc
KidList(threads) == [a \in 1..Cardinality(KidSlots(threads)) |-> threads[0 - a]]
Insert(list, r) ==
    LET to == 1 + Cardinality({a \in DOMAIN list : KidKey(list[a]) > KidKey(r)})
    IN  SubSeq(list, 1, to - 1) \o <<r>> \o SubSeq(list, to, Len(list))
Remove(list, a) == SubSeq(list, 1, a - 1) \o SubSeq(list, a + 1, Len(list))
WithKids(threads, list) ==
    [s \in ReqSlots(threads) \cup {0 - a : a \in DOMAIN list} |->
        IF s > 0 THEN threads[s] ELSE list[0 - s]]
\* Place(threads, k, r): thread record r takes the place of the one in slot
\* k; NoThread in a slot of KidSlots: the slot is gone.
Place(threads, k, r) ==
    IF k > 0 THEN [threads EXCEPT ![k] = r]
    ELSE IF r = NoThread THEN WithKids(threads, Remove(KidList(threads), Abs(k)))
    ELSE WithKids(threads, Insert(Remove(KidList(threads), Abs(k)), r))
\* A thread started by another thread gets a slot of KidSlots.
Spawn(threads, r) == WithKids(threads, Insert(KidList(threads), r))

\* The threads as a /stopall that returns leaves them.
StopReturned(threads) ==
    [i \in DOMAIN threads |-> IF threads[i].pc # 0 /\ i > 0
                               THEN [threads[i] EXCEPT !.owes = TRUE]
                               ELSE threads[i]]

\* ------------------------------------------------------------ initial state
\* Everything but the pan/tilt limits: WebState.__init__ (lines 60-87), the
\* module globals, the threads and the history variables.  ids: the thread
\* slots of the run; offs: the offsets servo_offsets.json holds (lines 41-46).
InitProgram(q, bz, ids, offs) ==
    /\ STOP_ALL = FALSE
    /\ current_cmd = None
    /\ body_z = bz
    /\ pan_angle = CENTER_ANGLE
    /\ tilt_angle = CENTER_ANGLE
    /\ active_preset = None
    /\ thread_running = TRUE
    /\ lock = "free"
    /\ OFFSETS = offs
    /\ phone_pan_angle = CENTER_ANGLE /\ phone_tilt_angle = CENTER_ANGLE
    /\ head_pan_angle = CENTER_ANGLE /\ head_tilt_angle = CENTER_ANGLE
    /\ led_last_color = <<0, 0, 0>>
    /\ flight = EmptyBag
    /\ wpc = "tick" /\ cmd = None /\ z = bz
    /\ spc = "idle"
    /\ seq = [i \in ids |-> NoThread]
    /\ quota = q
    /\ reqs = 0 /\ cmd_id = 0 /\ cmd_read = FALSE /\ w_id = 0 /\ w_stale = FALSE
    /\ overwritten = {} /\ cancelled = {} /\ cleared_by = None /\ resume = 0
    /\ stops = 0
    /\ act = <<>>
    /\ resp = NoResponse

\* The runs of hexweb7.py.
InitCore(q, bz, ids, offs) ==
    /\ program = "hexweb7"
    /\ InitProgram(q, bz, ids, offs)

\* No servo_offsets.json: line 41 stands.
InitThreads(q, bz, ids) == InitCore(q, bz, ids, << >>)

InitAt(q, bz) == InitThreads(q, bz, SeqIds)

\* Line 66: body_z = RESET_Z.
InitState(q) == InitAt(q, RESET_Z)

\* No pan_tilt_limits.json: line 28 stands.
InitWith(q) ==
    /\ InitState(q)
    /\ PAN_MIN = ANGLE_LO /\ PAN_MAX = ANGLE_HI
    /\ TILT_MIN = ANGLE_LO /\ TILT_MAX = ANGLE_HI

Init == InitWith(MaxReq)

\* Variant: a command already waiting in the slot is kept.
SetSlotIfEmpty(old, new) == IF old = None THEN new ELSE old

\* ------------------------------------------------------------ /cmd
\* The slot after SetCommand: the new command replaces whatever is there.
SetSlot(old, new) == new

\* Variant: a height/pose request changes body_z when it is made.
cmd_route_sets_z(key) ==
    /\ CanRequest
    /\ lock = "free"
    /\ reqs' = Counted(reqs)
    /\ STOP_ALL' = FALSE
    /\ cleared_by' = IF STOP_ALL THEN "cmd_route" ELSE cleared_by
    /\ LET c == map_key_to_cmd(key) IN
         IF c # None
         THEN /\ current_cmd' = SetSlot(current_cmd, c)
              /\ cmd_id' = IF current_cmd' = c THEN reqs' ELSE cmd_id
              /\ cmd_read' = IF current_cmd' = c THEN FALSE ELSE cmd_read
              /\ overwritten' = IF current_cmd # None /\ ~cmd_read /\ cmd_id # 0
                                 THEN overwritten \cup {cmd_id} ELSE overwritten
              /\ resume' = IF STOP_ALL THEN reqs' ELSE 0
              /\ body_z' = IF c \in PoseCmds THEN PoseZ(c, body_z) ELSE body_z
         ELSE /\ UNCHANGED <<current_cmd, cmd_id, cmd_read, overwritten, body_z>>
              /\ resume' = 0
    /\ act' = <<>>
    /\ UNCHANGED <<pan_angle, tilt_angle, active_preset, thread_running,
                   lock, cfg, worker, spc, seq, quota, w_id, w_stale, cancelled>>
    /\ stops' = 0
    /\ UNCHANGED resp

\* cmd_route, lines 806-812, one critical section.
cmd_route(key) ==
    /\ CanRequest
    /\ lock = "free"
    /\ reqs' = Counted(reqs)
    /\ STOP_ALL' = FALSE
    /\ cleared_by' = IF STOP_ALL THEN "cmd_route" ELSE cleared_by
    /\ LET c == map_key_to_cmd(key) IN
         IF c # None
         THEN /\ current_cmd' = SetSlot(current_cmd, c)
              /\ cmd_id' = IF current_cmd' = c THEN reqs' ELSE cmd_id
              /\ cmd_read' = IF current_cmd' = c THEN FALSE ELSE cmd_read
              /\ overwritten' = IF current_cmd # None /\ ~cmd_read /\ cmd_id # 0
                                 THEN overwritten \cup {cmd_id} ELSE overwritten
              /\ resume' = IF STOP_ALL THEN reqs' ELSE 0
         ELSE /\ UNCHANGED <<current_cmd, cmd_id, cmd_read, overwritten>>
              /\ resume' = 0
    /\ act' = <<>>
    /\ UNCHANGED <<body_z, pan_angle, tilt_angle, active_preset, thread_running,
                   lock, cfg, worker, spc, seq, quota, w_id, w_stale, cancelled>>
    /\ stops' = 0
    /\ UNCHANGED resp

\* ------------------------------------------------------------ /stopall
\* Variant: stopall toggles the flag instead of setting it.
stopall_begin_toggles ==
    /\ CanRequest
    /\ spc = "idle"
    /\ lock = "free"
    /\ lock' = "stopall"
    /\ STOP_ALL' = ~STOP_ALL
    /\ spc' = "relax"
    /\ reqs' = Counted(reqs)
    /\ resume' = 0
    /\ act' = <<>>
    /\ UNCHANGED <<seq, quota, current_cmd, body_z, pan_angle, tilt_angle, active_preset,
                   thread_running, cfg, worker, cmd_id, cmd_read, w_id, w_stale,
                   overwritten, cancelled, cleared_by>>
    /\ UNCHANGED <<stops, resp>>

\* stopall_route, line 819-820: take the lock, STOP_ALL = True.
stopall_begin ==
    /\ CanRequest
    /\ spc = "idle"
    /\ lock = "free"
    /\ lock' = "stopall"
    /\ STOP_ALL' = TRUE
    /\ spc' = "relax"
    /\ reqs' = Counted(reqs)
    /\ resume' = 0
    /\ act' = <<>>
    /\ UNCHANGED <<seq, quota, current_cmd, body_z, pan_angle, tilt_angle, active_preset,
                   thread_running, cfg, worker, cmd_id, cmd_read, w_id, w_stale,
                   overwritten, cancelled, cleared_by>>
    /\ UNCHANGED <<stops, resp>>

\* line 821: state.ctrl.servo.relax()
stopall_relax ==
    /\ spc = "relax"
    /\ lock = "stopall"
    /\ act' = <<RelaxCall("stopall")>>
    /\ spc' = "slot"
    /\ UNCHANGED <<seq, shared, lock, cfg, worker, hist>>
    /\ UNCHANGED <<stops, resp>>

\* Variant: line 822 is missing.
stopall_keeps_cmd ==
    /\ spc = "slot"
    /\ lock = "stopall"
    /\ cancelled' = IF current_cmd # None /\ ~cmd_read /\ cmd_id # 0
                     THEN cancelled \cup {cmd_id} ELSE cancelled
    /\ spc' = "preset"
    /\ act' = <<>>
    /\ UNCHANGED <<current_cmd, cmd_id, cmd_read, seq, quota, STOP_ALL, body_z, pan_angle, tilt_angle, active_preset,
                   thread_running, lock, cfg, worker, reqs, w_id, w_stale,
                   overwritten, resume, cleared_by>>
    /\ UNCHANGED <<stops, resp>>

\* line 822: state.current_cmd = None
stopall_clear_cmd ==
    /\ spc = "slot"
    /\ lock = "stopall"
    /\ current_cmd' = None
    /\ cancelled' = IF current_cmd # None /\ ~cmd_read /\ cmd_id # 0
                     THEN cancelled \cup {cmd_id} ELSE cancelled
    /\ cmd_id' = 0
    /\ cmd_read' = FALSE
    /\ spc' = "preset"
    /\ act' = <<>>
    /\ UNCHANGED <<seq, quota, STOP_ALL, body_z, pan_angle, tilt_angle, active_preset,
                   thread_running, lock, cfg, worker, reqs, w_id, w_stale,
                   overwritten, resume, cleared_by>>
    /\ UNCHANGED <<stops, resp>>

\* Variant: line 823 is missing.
stopall_end_keeps_preset ==
    /\ spc = "preset"
    /\ lock = "stopall"
    /\ lock' = "free"
    /\ spc' = "idle"
    /\ w_stale' = (wpc \in {"exec", "move"})
    /\ act' = <<>>
    /\ seq' = StopReturned(seq)
    /\ UNCHANGED <<active_preset, quota, STOP_ALL, current_cmd, body_z, pan_angle, tilt_angle,
                   thread_running, cfg, worker, reqs, cmd_id, cmd_read, w_id,
                   overwritten, cancelled, resume, cleared_by>>
    /\ stops' = Min(stops + 1, MaxStops)
    /\ UNCHANGED resp

\* line 823 and the end of the with block: state.active_preset = None, release,
\* return.  Any command the worker holds from here on was read before this
\* stopall returned.
stopall_end ==
    /\ spc = "preset"
    /\ lock = "stopall"
    /\ active_preset' = None
    /\ lock' = "free"
    /\ spc' = "idle"
    /\ w_stale' = (wpc \in {"exec", "move"})
    /\ act' = <<>>
    /\ seq' = StopReturned(seq)
    /\ UNCHANGED <<quota, STOP_ALL, current_cmd, body_z, pan_angle, tilt_angle,
                   thread_running, cfg, worker, reqs, cmd_id, cmd_read, w_id,
                   overwritten, cancelled, resume, cleared_by>>
    /\ stops' = Min(stops + 1, MaxStops)
    /\ UNCHANGED resp

\* Line 117, `while state.thread_running`: the worker is at the loop test
\* (wpc = "tick") and reads thread_running true, or has read it true already
\* and is in the sleep of line 118 or waiting for the lock of line 120
\* (wpc = "wait").
PassedLoopTest ==
    \/ wpc = "tick" /\ thread_running
    \/ wpc = "wait"

\* Variant: the worker clears STOP_ALL once it has relaxed the servos.
worker_relax_resumes ==
    /\ PassedLoopTest
    /\ lock = "free"
    /\ STOP_ALL
    /\ act' = <<RelaxCall("worker")>>
    /\ wpc' = "tick"
    /\ current_cmd' = None
    /\ STOP_ALL' = FALSE
    /\ cmd_id' = 0
    /\ cmd_read' = FALSE
    /\ UNCHANGED <<seq, quota, body_z, pan_angle, tilt_angle, active_preset,
                   thread_running, lock, cfg, cmd, z, spc, reqs, w_id, w_stale,
                   overwritten, cancelled, resume, cleared_by>>
    /\ UNCHANGED <<stops, resp>>

\* Variant: the worker relaxes the servos but leaves the slot alone.
worker_relax_keeps_cmd ==
    /\ PassedLoopTest
    /\ lock = "free"
    /\ STOP_ALL
    /\ act' = <<RelaxCall("worker")>>
    /\ wpc' = "tick"
    /\ UNCHANGED <<current_cmd, cmd_id, cmd_read>>
    /\ UNCHANGED <<seq, quota, STOP_ALL, body_z, pan_angle, tilt_angle, active_preset,
                   thread_running, lock, cfg, cmd, z, spc, reqs, w_id, w_stale,
                   overwritten, cancelled, resume, cleared_by>>
    /\ UNCHANGED <<stops, resp>>

\* ------------------------------------------------------------ movement_worker
\* lines 117-125: loop test, first critical section, STOP_ALL set.
worker_relax ==
    /\ PassedLoopTest
    /\ lock = "free"
    /\ STOP_ALL
    /\ act' = <<RelaxCall("worker")>>
    /\ wpc' = "tick"
    /\ current_cmd' = None
    /\ cmd_id' = 0
    /\ cmd_read' = FALSE
    /\ UNCHANGED <<seq, quota, STOP_ALL, body_z, pan_angle, tilt_angle, active_preset,
                   thread_running, lock, cfg, cmd, z, spc, reqs, w_id, w_stale,
                   overwritten, cancelled, resume, cleared_by>>
    /\ UNCHANGED <<stops, resp>>

\* lines 127-131: first critical section, slot empty: `continue`.
worker_idle ==
    /\ PassedLoopTest
    /\ lock = "free"
    /\ ~STOP_ALL
    /\ current_cmd = None
    /\ cmd' = current_cmd
    /\ z' = body_z
    /\ wpc' = "tick"
    /\ resume' = 0
    /\ act' = <<>>
    /\ UNCHANGED <<seq, quota, shared, lock, cfg, spc, reqs, cmd_id, cmd_read, w_id,
                   w_stale, overwritten, cancelled, cleared_by>>
    /\ UNCHANGED <<stops, resp>>

\* lines 127-131: first critical section, a command is in the slot.
worker_read ==
    /\ PassedLoopTest
    /\ lock = "free"
    /\ ~STOP_ALL
    /\ current_cmd # None
    /\ cmd' = current_cmd
    /\ z' = body_z
    /\ wpc' = "exec"
    /\ w_id' = cmd_id
    /\ cmd_read' = TRUE
    /\ w_stale' = FALSE
    /\ resume' = 0
    /\ act' = <<>>
    /\ UNCHANGED <<seq, quota, shared, lock, cfg, spc, reqs, cmd_id, overwritten, cancelled, cleared_by>>
    /\ UNCHANGED <<stops, resp>>

\* Variant: the gait step is issued twice.
worker_gait_twice ==
    /\ wpc = "exec"
    /\ cmd \in GaitCmds
    /\ act' = <<GaitCall(cmd, w_id, GaitData(cmd)), GaitCall(cmd, w_id, GaitData(cmd))>>
    /\ wpc' = "gate"
    /\ UNCHANGED <<seq, shared, lock, cfg, cmd, z, spc, hist>>
    /\ UNCHANGED <<stops, resp>>

\* lines 134-150: one run_gait call, issued outside the lock.
worker_gait ==
    /\ wpc = "exec"
    /\ cmd \in GaitCmds
    /\ act' = <<GaitCall(cmd, w_id, GaitData(cmd))>>
    /\ wpc' = "gate"
    /\ UNCHANGED <<seq, shared, lock, cfg, cmd, z, spc, hist>>
    /\ UNCHANGED <<stops, resp>>

\* lines 152-174: the critical section of a pose command recomputes body_z.
worker_pose ==
    /\ wpc = "exec"
    /\ cmd \in PoseCmds
    /\ lock = "free"
    /\ body_z' = PoseZ(cmd, body_z)
    /\ z' = body_z'
    /\ wpc' = "move"
    /\ act' = <<>>
    /\ UNCHANGED <<seq, STOP_ALL, current_cmd, pan_angle, tilt_angle, active_preset,
                   thread_running, lock, cfg, cmd, spc, hist>>
    /\ UNCHANGED <<stops, resp>>

\* lines 156/162/168/174: move_position(0, 0, z), issued outside the lock.
worker_move ==
    /\ wpc = "move"
    /\ act' = <<MoveCall(cmd, w_id, z)>>
    /\ wpc' = "gate"
    /\ UNCHANGED <<seq, shared, lock, cfg, cmd, z, spc, hist>>
    /\ UNCHANGED <<stops, resp>>

\* run_gait and move_position drive the legs through servo.set_servo_angle,
\* which line 102 replaced by guarded_set_servo_angle.  Lines 98-99: the gate
\* reads STOP_ALL (no lock) and drops the write when it is set.
worker_gate ==
    /\ wpc = "gate"
    /\ wpc' = IF STOP_ALL THEN "clear" ELSE "write"
    /\ act' = IF STOP_ALL THEN <<DropCall("worker", 0, 0)>> ELSE <<>>
    /\ UNCHANGED <<seq, shared, lock, cfg, cmd, z, spc, hist>>
    /\ UNCHANGED <<stops, resp>>

\* line 100: the write that passed the gate reaches _orig_set_servo_angle.
worker_write ==
    /\ wpc = "write"
    /\ act' = <<ServoCall("worker", 0, 0)>>
    /\ wpc' = "clear"
    /\ UNCHANGED <<seq, shared, lock, cfg, cmd, z, spc, hist>>
    /\ UNCHANGED <<stops, resp>>

\* lines 177-179: clear the slot if it (still) equals the executed command.
worker_clear ==
    /\ wpc = "clear"
    /\ lock = "free"
    /\ IF current_cmd = cmd
       THEN current_cmd' = None /\ cmd_id' = 0 /\ cmd_read' = FALSE
       ELSE UNCHANGED <<current_cmd, cmd_id, cmd_read>>
    /\ wpc' = "tick"
    /\ act' = <<>>
    /\ UNCHANGED <<STOP_ALL, body_z, pan_angle, tilt_angle, active_preset,
                   thread_running, lock, cfg, cmd, z, spc, seq, quota, reqs, w_id,
                   w_stale, overwritten, cancelled, resume, cleared_by>>
    /\ UNCHANGED <<stops, resp>>

\* An actuator call of the worker raises.  movement_worker has no try/except
\* (lines 117-179): the exception leaves the loop and the thread ends.  A
\* failing relax (line 123) is inside the first critical section, whose lock
\* the `with` releases, and line 124 is not reached; a failing run_gait or
\* move_position (lines 135-174) is outside any lock.
worker_fail ==
    /\ \/ PassedLoopTest /\ lock = "free" /\ STOP_ALL
       \/ wpc = "exec" /\ cmd \in GaitCmds
       \/ wpc = "move"
    /\ act' = <<Call("raised", "worker",
                     IF wpc \in {"tick", "wait"} THEN "relax" ELSE cmd,
                     IF wpc \in {"tick", "wait"} THEN 0 ELSE w_id, <<>>, 0, 0)>>
    /\ wpc' = "dead"
    /\ UNCHANGED <<seq, shared, lock, cfg, cmd, z, spc, hist, stops, resp>>

\* lines 117-118: the loop test read true; the worker sleeps and then waits
\* for the lock of line 120 without testing thread_running again.
worker_test ==
    /\ wpc = "tick"
    /\ thread_running
    /\ wpc' = "wait"
    /\ act' = <<>>
    /\ UNCHANGED <<seq, shared, lock, cfg, cmd, z, spc, hist, stops, resp>>

\* line 117: the loop test `while state.thread_running` read false: the worker
\* leaves its loop and the thread ends.  The test takes no lock; every other
\* step of the iteration that follows a passed test starts with `with lock:`.
worker_exit ==
    /\ wpc = "tick"
    /\ ~thread_running
    /\ wpc' = "done"
    /\ act' = <<>>
    /\ UNCHANGED <<seq, shared, lock, cfg, cmd, z, spc, hist, stops, resp>>

\* lines 927-930 with 260-262: the last step of the shutdown sequence,
\* led_off(), called inside the `with lock:` of line 920.  led_off itself
\* enters `with lock:` (line 261) on the same non-reentrant threading.Lock
\* (line 58), so the step needs the lock to be free while the shutdown
\* sequence holds it.  Only this step would release the lock (end of the
\* `with` block of line 920).
shutdown_led_off ==
    /\ lock = "shutdown"
    /\ ~thread_running
    /\ lock = "free"
    /\ act' = <<Call("color_wipe", "shutdown", "off", 0, <<0, 0, 0>>, 0, 0)>>
    /\ lock' = "free"
    /\ UNCHANGED <<STOP_ALL, current_cmd, body_z, pan_angle, tilt_angle, active_preset,
                   thread_running, cfg, worker, spc, seq, hist, stops, resp>>

\* ------------------------------------------------------------ /pt
\* Variant: only the upper limit is applied.
_clamp_hi(v, lo, hi) == Min(hi, v)

\* handle_pan_tilt._clamp(v, lo, hi) = max(lo, min(hi, int(v)))
_clamp(v, lo, hi) == Max(lo, Min(hi, v))

\* handle_pan_tilt(cmd, step) on tracked angles (pan, tilt) with the gate in
\* state stop: the new tracked angles and the actuator calls, in order.
handle_pan_tilt(c, step, pan, tilt, stop) ==
    IF c = "relax"
    THEN [pan |-> pan, tilt |-> tilt, calls |-> <<RelaxCall("pt")>>]
    ELSE LET p == CASE c = "center"    -> CENTER_ANGLE
                    [] c = "pan_left"  -> _clamp(pan - step, PAN_MIN, PAN_MAX)
                    [] c = "pan_right" -> _clamp(pan + step, PAN_MIN, PAN_MAX)
                    [] OTHER -> pan
             t == CASE c = "center"    -> CENTER_ANGLE
                    [] c = "tilt_up"   -> _clamp(tilt - step, TILT_MIN, TILT_MAX)
                    [] c = "tilt_down" -> _clamp(tilt + step, TILT_MIN, TILT_MAX)
                    [] OTHER -> tilt
         IN [pan |-> p, tilt |-> t,
             calls |-> guarded_set_servo_angle(stop, "pt", PAN_PORT,
                                               with_offset(PAN_PORT, p))
                       \o guarded_set_servo_angle(stop, "pt", TILT_PORT,
                                                  with_offset(TILT_PORT, t))]

\* ------------------------------------------------------------ hexweb8.py rigs
\* An inbound request on a route of hexweb8.py: it counts against the quota
\* of the run; hexweb8.py has no command slot, so the history of the slot
\* stays as it is.
HexRequest ==
    /\ CanRequest
    /\ reqs' = Counted(reqs)
    /\ UNCHANGED <<quota, cmd_id, cmd_read, w_id, w_stale, overwritten, cancelled,
                   cleared_by, resume>>

\* hexweb8.py line 192 / 226: step = int(step) if step else 3.
RigStep(step) == IF step = 0 THEN DEFAULT_STEP ELSE step

\* hexweb8.py handle_phone_pan_tilt(cmd, step), lines 187-219, on the tracked
\* angles (pan, tilt) of the phone rig: the angles it stores and the actuator
\* calls, in order.  hexweb8.py has no stop gate: the writes go to the servo.
handle_phone_pan_tilt(c, step, pan, tilt) ==
    LET st == RigStep(step)
        p == CASE c = "center"    -> CENTER_ANGLE
               [] c = "pan_left"  -> clamp(pan - st, PAN_MIN, PAN_MAX)
               [] c = "pan_right" -> clamp(pan + st, PAN_MIN, PAN_MAX)
               [] OTHER -> pan
        t == CASE c = "center"    -> CENTER_ANGLE
               [] c = "tilt_up"   -> clamp(tilt - st, TILT_MIN, TILT_MAX)
               [] c = "tilt_down" -> clamp(tilt + st, TILT_MIN, TILT_MAX)
               [] OTHER -> tilt
    IN  IF c = "relax"
        THEN [pan |-> pan, tilt |-> tilt, calls |-> <<RelaxCall("pt_phone")>>]
        ELSE [pan |-> p, tilt |-> t,
              calls |-> <<ServoCall("pt_phone", PHONE_PAN_PORT,
                                    with_offset(PHONE_PAN_PORT, p)),
                          ServoCall("pt_phone", PHONE_TILT_PORT,
                                    with_offset(PHONE_TILT_PORT, t))>>]

\* hexweb8.py handle_head_pan_tilt(cmd, step), lines 221-248: the same for the
\* head rig, without a relax branch ("relax" is an unknown command here: the
\* angles are stored as they are and written to the servos).
handle_head_pan_tilt(c, step, pan, tilt) ==
    LET st == RigStep(step)
        p == CASE c = "center"    -> CENTER_ANGLE
               [] c = "pan_left"  -> clamp(pan - st, PAN_MIN, PAN_MAX)
               [] c = "pan_right" -> clamp(pan + st, PAN_MIN, PAN_MAX)
               [] OTHER -> pan
        t == CASE c = "center"    -> CENTER_ANGLE
               [] c = "tilt_up"   -> clamp(tilt - st, TILT_MIN, TILT_MAX)
               [] c = "tilt_down" -> clamp(tilt + st, TILT_MIN, TILT_MAX)
               [] OTHER -> tilt
    IN  [pan |-> p, tilt |-> t,
         calls |-> <<ServoCall("pt_head", HEAD_PAN_PORT, with_offset(HEAD_PAN_PORT, p)),
                     ServoCall("pt_head", HEAD_TILT_PORT, with_offset(HEAD_TILT_PORT, t))>>]

\* jsonify({"ok": True, "pan": pan, "tilt": tilt}) (lines 389, 397)
RigReply(pan, tilt) == [status |-> 200, ok |-> TRUE, pan |-> pan, tilt |-> tilt]

\* Variant: the two rigs share one pair of tracked angles.
pt_phone_route_shared(c, step) ==
    /\ HexRequest
    /\ lock = "free"
    /\ LET r == handle_phone_pan_tilt(c, step, phone_pan_angle, phone_tilt_angle) IN
         /\ phone_pan_angle' = r.pan
         /\ phone_tilt_angle' = r.tilt
         /\ head_pan_angle' = r.pan
         /\ head_tilt_angle' = r.tilt
         /\ act' = r.calls
         /\ resp' = RigReply(r.pan, r.tilt)
    /\ UNCHANGED <<shared, lock, limits, led_last_color, flight, worker, spc, seq, stops>>

\* hexweb8.py pt_phone_route, lines 383-389: the handler runs in one critical
\* section; the reply carries the angles it returned.
pt_phone_route(c, step) ==
    /\ HexRequest
    /\ lock = "free"
    /\ LET r == handle_phone_pan_tilt(c, step, phone_pan_angle, phone_tilt_angle) IN
         /\ phone_pan_angle' = r.pan
         /\ phone_tilt_angle' = r.tilt
         /\ act' = r.calls
         /\ resp' = RigReply(r.pan, r.tilt)
    /\ UNCHANGED <<head_pan_angle, head_tilt_angle>>
    /\ UNCHANGED <<shared, lock, limits, led_last_color, flight, worker, spc, seq, stops>>

\* hexweb8.py pt_head_route, lines 391-397.
pt_head_route(c, step) ==
    /\ HexRequest
    /\ lock = "free"
    /\ LET r == handle_head_pan_tilt(c, step, head_pan_angle, head_tilt_angle) IN
         /\ head_pan_angle' = r.pan
         /\ head_tilt_angle' = r.tilt
         /\ act' = r.calls
         /\ resp' = RigReply(r.pan, r.tilt)
    /\ UNCHANGED <<phone_pan_angle, phone_tilt_angle>>
    /\ UNCHANGED <<shared, lock, limits, led_last_color, flight, worker, spc, seq, stops>>

\* Variant: a pan/tilt request clears STOP_ALL, as a /cmd request does.
pt_route_resumes(c, step) ==
    /\ CanRequest
    /\ lock = "free"
    /\ reqs' = Counted(reqs)
    /\ LET r == handle_pan_tilt(c, step, pan_angle, tilt_angle, STOP_ALL) IN
         /\ pan_angle' = r.pan
         /\ tilt_angle' = r.tilt
         /\ act' = r.calls
    /\ resume' = 0
    /\ STOP_ALL' = FALSE
    /\ UNCHANGED <<seq, quota, current_cmd, body_z, active_preset, thread_running,
                   lock, cfg, worker, spc, cmd_id, cmd_read, w_id, w_stale,
                   overwritten, cancelled, cleared_by>>
    /\ stops' = 0
    /\ UNCHANGED resp

\* pt_route, lines 827-832; handle_pan_tilt is one critical section.
pt_route(c, step) ==
    /\ CanRequest
    /\ lock = "free"
    /\ reqs' = Counted(reqs)
    /\ LET r == handle_pan_tilt(c, step, pan_angle, tilt_angle, STOP_ALL) IN
         /\ pan_angle' = r.pan
         /\ tilt_angle' = r.tilt
         /\ act' = r.calls
    /\ resume' = 0
    /\ UNCHANGED <<seq, quota, STOP_ALL, current_cmd, body_z, active_preset, thread_running,
                   lock, cfg, worker, spc, cmd_id, cmd_read, w_id, w_stale,
                   overwritten, cancelled, cleared_by>>
    /\ stops' = 0
    /\ UNCHANGED resp

\* ------------------------------------------------------------ /preset
\* The instruction sequencer thread i is at.
Cur(i) == Script(seq[i].name)[seq[i].pc]
At(i, op) == seq[i].pc > 0 /\ seq[i].sub = "top" /\ Cur(i).op = op
Advance(i) == seq' = Place(seq, i, [seq[i] EXCEPT !.pc = @ + 1])

\* Variant: run_preset is called without looking the name up in the registry.
preset_route_unchecked(name) ==
    /\ CanRequest
    /\ reqs' = Counted(reqs)
    /\ resume' = 0
    /\ act' = <<>>
    /\ lock = "free"
    /\ active_preset' = name
    /\ STOP_ALL' = FALSE
    /\ cleared_by' = IF STOP_ALL THEN "run_preset" ELSE cleared_by
    /\ IF name \notin {"demo1", "demo2", "demo3"}
       THEN /\ resp' = Reply(200, TRUE, "Running " \o name)
            /\ UNCHANGED seq
       ELSE /\ \E i \in DOMAIN seq :
                 /\ FirstFree(seq, ReqSlots(seq), i)
                 /\ seq' = [seq EXCEPT ![i] = Pending(name)]
            /\ UNCHANGED resp
    /\ UNCHANGED <<current_cmd, body_z, pan_angle, tilt_angle, thread_running,
                   lock, cfg, worker, spc, quota, cmd_id, cmd_read, w_id, w_stale,
                   overwritten, cancelled>>
    /\ stops' = 0

\* preset_route, lines 908-912, and run_preset, lines 368-371: a name outside
\* the registry is answered 400; otherwise the critical section of run_preset
\* sets active_preset and clears STOP_ALL, and the lock is released.  The
\* thread is started later (preset_start); it has its slot from here on.
preset_route(name) ==
    /\ CanRequest
    /\ reqs' = Counted(reqs)
    /\ resume' = 0
    /\ act' = <<>>
    /\ IF name \notin {"demo1", "demo2", "demo3"}
       THEN /\ resp' = Reply(400, FALSE, "Unknown preset")
            /\ UNCHANGED <<STOP_ALL, active_preset, seq, cleared_by>>
       ELSE /\ lock = "free"
            /\ active_preset' = name
            /\ STOP_ALL' = FALSE
            /\ cleared_by' = IF STOP_ALL THEN "run_preset" ELSE cleared_by
            /\ \E i \in DOMAIN seq :
                 /\ FirstFree(seq, ReqSlots(seq), i)
                 /\ seq' = [seq EXCEPT ![i] = Pending(name)]
            /\ UNCHANGED resp
    /\ UNCHANGED <<current_cmd, body_z, pan_angle, tilt_angle, thread_running,
                   lock, cfg, worker, spc, quota, cmd_id, cmd_read, w_id, w_stale,
                   overwritten, cancelled>>
    /\ stops' = 0

\* run_preset, line 458, and preset_route, line 914, outside the lock: the
\* _run thread is started and the request is answered.
preset_start(i) ==
    /\ seq[i].pc = 0 /\ seq[i].sub = "start"
    /\ seq' = [seq EXCEPT ![i] = Started(seq[i].name)]
    /\ resp' = Reply(200, TRUE, "Running " \o seq[i].name)
    /\ act' = <<>>
    /\ UNCHANGED <<shared, lock, cfg, worker, spc, hist>>
    /\ UNCHANGED stops

\* buzzer_pulse(..), led_set("rainbow", ..), led_breathe(..): each only starts
\* a thread (lines 257, 292, 339) and returns; the sequencer takes no lock and
\* makes no call itself.  The thread started gets a slot of KidSlots.
seq_effect(i) ==
    /\ \/ At(i, "buzzer_pulse")
       \/ At(i, "led_breathe")
       \/ At(i, "led_set") /\ Cur(i).s = "rainbow"
    /\ act' = <<>>
    /\ seq' = Spawn([seq EXCEPT ![i].pc = @ + 1], Started(EffectThread(Cur(i))))
    /\ UNCHANGED <<shared, lock, cfg, worker, spc, hist>>
    /\ UNCHANGED <<stops, resp>>

\* led_set("solid", ..) -> led_solid and led_off(): one critical section that
\* calls led.color_wipe (lines 260-266).
seq_led(i) ==
    /\ \/ At(i, "led_off")
       \/ At(i, "led_set") /\ Cur(i).s = "solid"
    /\ lock = "free"
    /\ act' = <<Call("color_wipe", "preset", Cur(i).s, 0, <<>>, 0, 0)>>
    /\ Advance(i)
    /\ UNCHANGED <<shared, lock, cfg, worker, spc, hist>>
    /\ UNCHANGED <<stops, resp>>

\* set_cmd(cmd), lines 373-375: one critical section overwrites the slot.
seq_set_cmd(i) ==
    /\ At(i, "set_cmd")
    /\ lock = "free"
    /\ current_cmd' = Cur(i).s
    /\ cmd_id' = 0
    /\ cmd_read' = FALSE
    /\ overwritten' = IF current_cmd # None /\ ~cmd_read /\ cmd_id # 0
                       THEN overwritten \cup {cmd_id} ELSE overwritten
    /\ act' = <<>>
    /\ Advance(i)
    /\ UNCHANGED <<STOP_ALL, body_z, pan_angle, tilt_angle, active_preset,
                   thread_running, lock, cfg, worker, spc, quota, reqs, w_id,
                   w_stale, cancelled, resume, cleared_by>>
    /\ UNCHANGED <<stops, resp>>

\* `if STOP_ALL: break` at the head of a loop body: an unlocked read.
seq_if_stop(i) ==
    /\ At(i, "if_stop")
    /\ seq' = Place(seq, i, [seq[i] EXCEPT !.pc = IF STOP_ALL THEN Cur(i).to ELSE @ + 1,
                                           !.stopped = (@ \/ STOP_ALL) /\ i > 0,
                                           !.owes = FALSE])
    /\ act' = <<>>
    /\ UNCHANGED <<shared, lock, cfg, worker, spc, hist>>
    /\ UNCHANGED <<stops, resp>>

\* pt_to, lines 378-384: the critical section clamps and stores the tracked
\* angles and reads them back into p, t.
seq_pt_lock(i) ==
    /\ At(i, "pt_to")
    /\ lock = "free"
    /\ pan_angle' = clamp(Cur(i).pan, PAN_MIN, PAN_MAX)
    /\ tilt_angle' = IF Cur(i).upd_tilt THEN clamp(Cur(i).tilt, TILT_MIN, TILT_MAX)
                                        ELSE tilt_angle
    /\ seq' = [seq EXCEPT ![i].sub = "gate_pan", ![i].p = pan_angle', ![i].t = tilt_angle']
    /\ act' = <<>>
    /\ UNCHANGED <<STOP_ALL, current_cmd, body_z, active_preset, thread_running,
                   lock, cfg, worker, spc, hist>>
    /\ UNCHANGED <<stops, resp>>

\* pt_to, lines 385-386, outside the lock: the gate of each of the two writes
\* reads STOP_ALL (lines 98-99) ...
seq_pt_gate(i) ==
    /\ seq[i].pc > 0
    /\ seq[i].sub \in {"gate_pan", "gate_tilt"}
    /\ seq' = [seq EXCEPT
                 ![i].sub = IF seq[i].sub = "gate_pan"
                            THEN (IF STOP_ALL THEN "gate_tilt" ELSE "write_pan")
                            ELSE (IF STOP_ALL THEN "top" ELSE "write_tilt"),
                 ![i].pc = IF seq[i].sub = "gate_tilt" /\ STOP_ALL THEN @ + 1 ELSE @]
    /\ act' = IF ~STOP_ALL THEN <<>>
              ELSE IF seq[i].sub = "gate_pan"
              THEN <<DropCall("preset", PAN_PORT, with_offset(PAN_PORT, seq[i].p))>>
              ELSE <<DropCall("preset", TILT_PORT, with_offset(TILT_PORT, seq[i].t))>>
    /\ UNCHANGED <<shared, lock, cfg, worker, spc, hist>>
    /\ UNCHANGED <<stops, resp>>

\* ... and a write that passed it reaches _orig_set_servo_angle (line 100).
seq_pt_write(i) ==
    /\ seq[i].pc > 0
    /\ seq[i].sub \in {"write_pan", "write_tilt"}
    /\ act' = IF seq[i].sub = "write_pan"
              THEN <<ServoCall("preset", PAN_PORT, with_offset(PAN_PORT, seq[i].p))>>
              ELSE <<ServoCall("preset", TILT_PORT, with_offset(TILT_PORT, seq[i].t))>>
    /\ seq' = [seq EXCEPT
                 ![i].sub = IF seq[i].sub = "write_pan" THEN "gate_tilt" ELSE "top",
                 ![i].pc = IF seq[i].sub = "write_tilt" THEN @ + 1 ELSE @]
    /\ UNCHANGED <<shared, lock, cfg, worker, spc, hist>>
    /\ UNCHANGED <<stops, resp>>

\* Variant: the thread ends without clearing active_preset.
seq_finally_keeps_preset(i) ==
    /\ At(i, "finally")
    /\ lock = "free"
    /\ active_preset' = active_preset
    /\ seq' = [seq EXCEPT ![i] = NoThread]
    /\ act' = <<>>
    /\ UNCHANGED <<STOP_ALL, current_cmd, body_z, pan_angle, tilt_angle,
                   thread_running, lock, cfg, worker, spc, hist>>
    /\ UNCHANGED <<stops, resp>>

\* finally, lines 454-456: one critical section clears active_preset; the
\* thread ends.
seq_finally(i) ==
    /\ At(i, "finally")
    /\ lock = "free"
    /\ active_preset' = None
    /\ seq' = [seq EXCEPT ![i] = NoThread]
    /\ act' = <<>>
    /\ UNCHANGED <<STOP_ALL, current_cmd, body_z, pan_angle, tilt_angle,
                   thread_running, lock, cfg, worker, spc, hist>>
    /\ UNCHANGED <<stops, resp>>

\* ------------------------------------------------------------ /led
\* str.lower() on the mode and key values the runs draw from.
lower(str) ==
    CASE str = "Breathe" -> "breathe"
      [] str = "W" -> "w"
      [] str = "Alert" -> "alert"
      [] OTHER -> str
\* (data.get("mode") or default).lower(): a request that names no mode gets
\* the default one.
mode_or(mode, default) == IF mode = None THEN default ELSE lower(mode)

\* The modes of led_set that start an effect thread (lines 346-354).
LedThreadModes == {"blink", "breathe", "police", "rainbow"}

\* Variant: an effect thread starts only while no other effect is running.
led_route_exclusive(mode) ==
    /\ CanRequest
    /\ reqs' = Counted(reqs)
    /\ resume' = 0
    /\ stops' = 0
    /\ IF mode_or(mode, "solid") \in LedThreadModes
       THEN /\ act' = <<>>
            /\ \A j \in DOMAIN seq : seq[j].pc = 0
            /\ \E i \in DOMAIN seq :
                 /\ FirstFree(seq, ReqSlots(seq), i)
                 /\ seq' = [seq EXCEPT ![i] = Started(mode_or(mode, "solid"))]
       ELSE /\ lock = "free"
            /\ act' = <<Call("color_wipe", "led",
                             IF mode_or(mode, "solid") = "off" THEN "off" ELSE "rgb",
                             0, <<>>, 0, 0)>>
            /\ UNCHANGED seq
    /\ resp' = Reply(200, TRUE, "LED")
    /\ UNCHANGED <<shared, lock, cfg, worker, spc, quota, cmd_id, cmd_read, w_id,
                   w_stale, overwritten, cancelled, cleared_by>>

\* led_route, lines 898-905, and led_set, lines 341-356.  The mode is
\* lower-cased (line 900).  "off" and "solid" (and any unknown mode, line
\* 356) write the LEDs in one critical section; "blink", "breathe", "police"
\* and "rainbow" start an effect thread and return without a lock or a call.
led_route(mode) ==
    /\ CanRequest
    /\ reqs' = Counted(reqs)
    /\ resume' = 0
    /\ stops' = 0
    /\ IF mode_or(mode, "solid") \in LedThreadModes
       THEN /\ act' = <<>>
            /\ \E i \in DOMAIN seq :
                 /\ FirstFree(seq, ReqSlots(seq), i)
                 /\ seq' = [seq EXCEPT ![i] = Started(mode_or(mode, "solid"))]
       ELSE /\ lock = "free"
            /\ act' = <<Call("color_wipe", "led",
                             IF mode_or(mode, "solid") = "off" THEN "off" ELSE "rgb",
                             0, <<>>, 0, 0)>>
            /\ UNCHANGED seq
    /\ resp' = Reply(200, TRUE, "LED")
    /\ UNCHANGED <<shared, lock, cfg, worker, spc, quota, cmd_id, cmd_read, w_id,
                   w_stale, overwritten, cancelled, cleared_by>>

\* ------------------------------------------------------------ /buzzer
\* buzzer_route, lines 878-895.  "pulse" starts the thread of buzzer_pulse;
\* "on" and "off" switch the buzzer in one critical section; any other mode
\* does nothing.  Every mode is answered ok.
buzzer_route(mode) ==
    /\ CanRequest
    /\ reqs' = Counted(reqs)
    /\ resume' = 0
    /\ stops' = 0
    /\ CASE mode_or(mode, "pulse") = "pulse" ->
               /\ act' = <<>>
               /\ \E i \in DOMAIN seq :
                    /\ FirstFree(seq, ReqSlots(seq), i)
                    /\ seq' = [seq EXCEPT ![i] = Started("buzzer")]
               /\ resp' = Reply(200, TRUE, "Beep pulse triggered")
         [] mode_or(mode, "pulse") \in {"on", "off"} ->
               /\ lock = "free"
               /\ act' = <<Call("set_state", "buzzer_route", mode_or(mode, "pulse"), 0,
                                <<>>, 0, 0)>>
               /\ UNCHANGED seq
               /\ resp' = Reply(200, TRUE, IF mode_or(mode, "pulse") = "on" THEN "Buzzer on"
                                                                ELSE "Buzzer off")
         [] OTHER ->
               /\ act' = <<>>
               /\ UNCHANGED seq
               /\ resp' = Reply(200, TRUE, "Unknown buzzer mode")
    /\ UNCHANGED <<shared, lock, cfg, worker, spc, quota, cmd_id, cmd_read, w_id,
                   w_stale, overwritten, cancelled, cleared_by>>

\* buzzer_pulse._run, lines 251-256: buzzer on and buzzer off, one critical
\* section each, with a sleep in between.
fx_buzz(i) ==
    /\ At(i, "buzz_on") \/ At(i, "buzz_off")
    /\ lock = "free"
    /\ act' = <<Call("set_state", "buzzer", IF Cur(i).op = "buzz_on" THEN "on" ELSE "off",
                     ThreadId(i), <<>>, 0, 0)>>
    /\ seq' = Place(seq, i, IF Cur(i).op = "buzz_on" THEN [seq[i] EXCEPT !.pc = @ + 1]
                                                      ELSE NoThread)
    /\ UNCHANGED <<shared, lock, cfg, worker, spc, hist, stops, resp>>

\* led_solid / led_off called by an effect thread: one critical section each
\* (lines 260-266) around led.color_wipe, which the STOP_ALL gate does not wrap.
fx_led(i) ==
    /\ At(i, "led_solid") \/ At(i, "fx_off")
    /\ lock = "free"
    /\ act' = <<Call("color_wipe", "led",
                     IF Cur(i).op = "fx_off" THEN "off" ELSE Cur(i).s, ThreadId(i), <<>>, 0, 0)>>
    /\ Advance(i)
    /\ UNCHANGED <<shared, lock, cfg, worker, spc, hist, stops, resp>>

\* the effect thread's function returns
fx_end(i) ==
    /\ At(i, "end")
    /\ seq' = Place(seq, i, NoThread)
    /\ act' = <<>>
    /\ UNCHANGED <<shared, lock, cfg, worker, spc, hist, stops, resp>>

\* ------------------------------------------------------------ hexweb8.py /cmd
\* The argument list handle_hex_command passes to run_gait for each gait key
\* (hexweb8.py lines 116-144).
HexGaitData(key) ==
    CASE key = "w" -> <<"CMD_MOVE", "1", "0", "35", "10", "0">>
      [] key = "s" -> <<"CMD_MOVE", "2", "0", "-35", "10", "10">>
      [] key = "d" -> <<"CMD_MOVE", "1", "35", "0", "10", "0">>
      [] key = "a" -> <<"CMD_MOVE", "1", "-35", "0", "10", "0">>
      [] key = "j" -> <<"CMD_MOVE", "1", "0", "0", "10", "20">>
      [] key = "l" -> <<"CMD_MOVE", "1", "0", "0", "10", "-20">>
HexGaitMessage(key) ==
    CASE key = "w" -> "Forward"
      [] key = "s" -> "Backward"
      [] key = "d" -> "Sidestep Right"
      [] key = "a" -> "Sidestep Left"
      [] key = "j" -> "Turn Left"
      [] key = "l" -> "Turn Right"
HexGaitKeys == {"w", "s", "d", "a", "j", "l"}
HexPoseKeys == {"i", "k", "t", "r"}

\* hexweb8.py handle_hex_command(key), lines 112-184, on body height bz: the
\* body_z it stores, the actuator calls it makes and the message it returns.
\* The whole function runs inside one `with lock:`; hexweb8.py has no command
\* slot, no worker and no stop gate: run_gait and move_position are called by
\* the request itself and drive the leg servos directly.
handle_hex_command(key, bz) ==
    LET zz == CASE key = "i" -> clamp(bz + HEIGHT_STEP, MIN_Z, MAX_Z)
                [] key = "k" -> clamp(bz - HEIGHT_STEP, MIN_Z, MAX_Z)
                [] key = "t" -> clamp(TABLETOP_Z, MIN_Z, MAX_Z)
                [] key = "r" -> clamp(RESET_Z, MIN_Z, MAX_Z)
                [] OTHER -> bz
    IN  IF key \in HexGaitKeys
        THEN [z |-> bz,
              calls |-> <<Call("run_gait", "cmd_route", key, 0, HexGaitData(key), 0, 0)>>,
              message |-> HexGaitMessage(key)]
        ELSE IF key \in HexPoseKeys
        THEN [z |-> zz,
              calls |-> <<Call("move_position", "cmd_route", key, 0, <<>>, 0, zz)>>,
              message |-> (CASE key = "i" -> "Raise body to z="
                             [] key = "k" -> "Lower body to z="
                             [] key = "t" -> "Tabletop pose z="
                             [] key = "r" -> "Reset pose z=") \o ToString(zz)]
        ELSE IF key = "x"
        THEN [z |-> bz, calls |-> <<RelaxCall("cmd_route")>>,
              message |-> "All servos relaxed"]
        ELSE [z |-> bz, calls |-> <<>>, message |-> "Unknown hexapod command"]

\* A request that has left its critical section: the route, the key or mode
\* and the message it will answer with.
InFlight(route, key, message) == [route |-> route, key |-> key, message |-> message]
Fly(q) == flight' = flight (+) SetToBag({q})
Land(q) == flight' = flight (-) SetToBag({q})

\* hexweb8.py cmd_route, lines 371-374: the key is lower-cased and the handler
\* runs, one critical section; the lock is released.
hexweb8_cmd_route(key) ==
    /\ HexRequest
    /\ lock = "free"
    /\ LET r == handle_hex_command(mode_or(key, ""), body_z) IN
         /\ body_z' = r.z
         /\ act' = r.calls
         /\ Fly(InFlight("cmd", mode_or(key, ""), r.message))
    /\ UNCHANGED <<STOP_ALL, current_cmd, pan_angle, tilt_angle, active_preset,
                   thread_running, lock, limits, rigs, led_last_color, worker, spc, seq,
                   stops, resp>>

\* hexweb8.py cmd_route, line 375, outside the lock: the reply carries the
\* key, the message of the handler and state.body_z as it is now.
hexweb8_cmd_reply(q) ==
    /\ q \in BagToSet(flight) /\ q.route = "cmd"
    /\ Land(q)
    /\ resp' = [status |-> 200, ok |-> TRUE, key |-> q.key, message |-> q.message,
                body_z |-> body_z]
    /\ act' = <<>>
    /\ UNCHANGED <<shared, lock, limits, rigs, led_last_color, worker, spc, seq, hist, stops>>

\* hexweb8.py stopall_route, lines 377-381: servo.relax() under the lock,
\* nothing else.
hexweb8_stopall_route ==
    /\ HexRequest
    /\ lock = "free"
    /\ act' = <<RelaxCall("stopall_route")>>
    /\ resp' = Reply(200, TRUE, "All servos relaxed (legs + pan/tilt)")
    /\ UNCHANGED <<shared, lock, cfg, worker, spc, seq, stops>>

\* ------------------------------------------------------------ hexweb8.py sensors
\* float(read) inside try/except (lines 254-257, 271-274): the number the
\* driver returned, or the fallback when the call raised or returned what
\* float() rejects (a tuple, an empty tuple, a text).
float_or(read, fallback) == IF read.name = "number" THEN read.val ELSE fallback

\* lines 258-265
battery_status(v) ==
    IF v > 0
    THEN IF v < LOW_VOLTS THEN "LOW" ELSE IF v < FULL_VOLTS THEN "OK" ELSE "FULL"
    ELSE "No reading"

\* lines 275-282
ultra_status(d) ==
    IF d <= 0 THEN "No echo"
    ELSE IF d < VERY_CLOSE_CM THEN "VERY CLOSE"
    ELSE IF d < CLOSE_CM THEN "Close"
    ELSE "Clear"

\* hexweb8.py battery_route, lines 251-266; read: the driver call and its outcome.
battery_route(read) ==
    /\ HexRequest
    /\ lock = "free"
    /\ act' = <<read>>
    /\ LET v == float_or(read, 0) IN
         resp' = [status |-> 200, ok |-> TRUE, voltage |-> v, reading |-> battery_status(v)]
    /\ UNCHANGED <<shared, lock, cfg, worker, spc, seq, stops>>

\* hexweb8.py ultra_route, lines 268-283.
ultra_route(read) ==
    /\ HexRequest
    /\ lock = "free"
    /\ act' = <<read>>
    /\ LET d == float_or(read, NO_ECHO) IN
         resp' = [status |-> 200, ok |-> TRUE, distance_cm |-> d, reading |-> ultra_status(d)]
    /\ UNCHANGED <<shared, lock, cfg, worker, spc, seq, stops>>

\* ------------------------------------------------------------ hexweb8.py /led
\* The modes of hexweb8.py led_route that call apply_color in the request,
\* with the colour they apply (lines 299-316); solid clamps each component.
LedColourModes == {"off", "solid", "red", "green", "blue"}
LedColour(mode, rgb) ==
    CASE mode = "off"   -> <<0, 0, 0>>
      [] mode = "solid" -> <<clamp(rgb[1], 0, LED_MAX), clamp(rgb[2], 0, LED_MAX),
                             clamp(rgb[3], 0, LED_MAX)>>
      [] mode = "red"   -> <<LED_MAX, 0, 0>>
      [] mode = "green" -> <<0, LED_MAX, 0>>
      [] mode = "blue"  -> <<0, 0, LED_MAX>>
LedMessage(mode, c) ==
    CASE mode = "off"   -> "LEDs off"
      [] mode = "solid" -> "LED solid color (" \o ToString(c[1]) \o "," \o ToString(c[2])
                           \o "," \o ToString(c[3]) \o ")"
      [] mode = "red"   -> "LED red"
      [] mode = "green" -> "LED green"
      [] mode = "blue"  -> "LED blue"
      [] mode = "alert" -> "LED alert pattern"
      [] OTHER -> "Unknown LED mode"
LedReply(message, colour) ==
    [status |-> 200, ok |-> TRUE, message |-> message, last_color |-> colour]

\* hexweb8.py led_route, lines 286-328.  apply_color (lines 294-297) is one
\* critical section: color_wipe and the store of led_last_color; the lock is
\* released.  alert starts the _alert thread (line 325) and applies nothing
\* itself.  An unknown mode does nothing but read led_last_color for its
\* reply (line 330).
hexweb8_led_route(mode, rgb) ==
    /\ HexRequest
    /\ IF mode_or(mode, "solid") \in LedColourModes
       THEN /\ lock = "free"
            /\ led_last_color' = LedColour(mode_or(mode, "solid"), rgb)
            /\ act' = <<Call("color_wipe", "led_route", None, 0, led_last_color', 0, 0)>>
            /\ Fly(InFlight("led", mode_or(mode, "solid"),
                            LedMessage(mode_or(mode, "solid"), led_last_color')))
            /\ UNCHANGED <<seq, resp>>
       ELSE IF mode_or(mode, "solid") = "alert"
       THEN /\ \E i \in DOMAIN seq :
                 /\ FirstFree(seq, ReqSlots(seq), i)
                 /\ seq' = [seq EXCEPT ![i] = Started("alert")]
            /\ act' = <<>>
            /\ Fly(InFlight("led", "alert", LedMessage("alert", led_last_color)))
            /\ UNCHANGED <<led_last_color, resp>>
       ELSE /\ act' = <<>>
            /\ resp' = LedReply(LedMessage(mode_or(mode, "solid"), led_last_color),
                                led_last_color)
            /\ UNCHANGED <<seq, led_last_color, flight>>
    /\ UNCHANGED <<shared, lock, limits, rigs, worker, spc, stops>>

\* hexweb8.py led_route, line 330, outside the lock: the reply carries the
\* message of the mode and state.led_last_color as it is now.
hexweb8_led_reply(q) ==
    /\ q \in BagToSet(flight) /\ q.route = "led"
    /\ Land(q)
    /\ resp' = LedReply(q.message, led_last_color)
    /\ act' = <<>>
    /\ UNCHANGED <<shared, lock, limits, rigs, led_last_color, worker, spc, seq, hist, stops>>

\* apply_color called by the _alert thread (lines 321 and 323).
alert_apply_color(i) ==
    /\ At(i, "apply_color")
    /\ lock = "free"
    /\ led_last_color' = Cur(i).s
    /\ act' = <<Call("color_wipe", "alert", None, i, Cur(i).s, 0, 0)>>
    /\ Advance(i)
    /\ UNCHANGED <<shared, lock, limits, rigs, flight, worker, spc, hist, stops, resp>>

\* ------------------------------------------------------------ hexweb8.py /beep
BeepThreadModes == {"short", "long", "triple"}
BeepThread(mode) ==
    CASE mode = "short" -> "beep_short"
      [] mode = "long" -> "beep_long"
      [] mode = "triple" -> "triple"
BeepMessage(mode) ==
    CASE mode = "short" -> "Short beep"
      [] mode = "long" -> "Long beep"
      [] mode = "triple" -> "Triple beep"
      [] OTHER -> "Unknown beep mode"

\* hexweb8.py beep_route, lines 333-368: short, long and triple start a
\* thread; the request itself never touches the buzzer.
beep_route(mode) ==
    /\ HexRequest
    /\ IF mode_or(mode, "short") \in BeepThreadModes
       THEN \E i \in DOMAIN seq :
                /\ FirstFree(seq, ReqSlots(seq), i)
                /\ seq' = [seq EXCEPT ![i] = Started(BeepThread(mode_or(mode, "short")))]
       ELSE seq' = seq
    /\ act' = <<>>
    /\ resp' = Reply(200, TRUE, BeepMessage(mode_or(mode, "short")))
    /\ UNCHANGED <<shared, lock, cfg, worker, spc, stops>>

\* beep_short / beep_long (lines 338-350): each buzzer.set_state call is a
\* critical section of its own.
beep_set_state(i) ==
    /\ At(i, "beep_on") \/ At(i, "beep_off")
    /\ lock = "free"
    /\ act' = <<Call("set_state", "beep", IF Cur(i).op = "beep_on" THEN "on" ELSE "off",
                     i, <<>>, 0, 0)>>
    /\ Advance(i)
    /\ UNCHANGED <<shared, lock, cfg, worker, spc, hist, stops, resp>>

\* ------------------------------------------------------------ /sensors
\* Lines 847-849 and 856-858: raw[0] of a tuple or list, then float(raw).
\* <<v>> is the converted value; <<>> stands for the exception that the
\* driver call, the indexing or float() raised.
to_float(read) ==
    IF read.name = "number" THEN <<read.val>>
    ELSE IF read.name = "tuple" THEN <<read.val>>
    ELSE <<>>

\* hexweb5.py sensors_route, lines 613-622: both reads in one critical
\* section inside one try block, then float() of each value as it was
\* returned (a tuple is not indexed).  Whatever raises first ends the
\* request: status 500, ok False and the text of the exception, no value;
\* after a failed battery read the ultrasonic sensor is not read.
hexweb5_float(read) == IF read.name = "number" THEN <<read.val>> ELSE <<>>
hexweb5_sensors_route(bat, dist) ==
    /\ lock = "free"
    /\ act' = IF bat.name = "raises" THEN <<bat>> ELSE <<bat, dist>>
    /\ resp' = IF bat.name = "raises" \/ dist.name = "raises"
                  \/ hexweb5_float(bat) = <<>> \/ hexweb5_float(dist) = <<>>
               THEN [status |-> 500, ok |-> FALSE, battery |-> Null, distance |-> Null,
                     error |-> <<"str(e)">>, message |-> None]
               ELSE [status |-> 200, ok |-> TRUE, battery |-> hexweb5_float(bat),
                     distance |-> hexweb5_float(dist), error |-> <<>>, message |-> None]
    /\ UNCHANGED <<shared, lock, cfg, worker, spc, seq, hist, stops>>

\* sensors_route, lines 834-876: one critical section reads the battery and
\* then the ultrasonic sensor, each inside its own try/except; error lists the
\* messages joined by " | " in err_msg, in order.  The status is 200 either way.
sensors_route(bat, dist) ==
    /\ lock = "free"
    /\ act' = <<bat, dist>>
    /\ LET bat_val == to_float(bat)
           dist_val == to_float(dist)
           err_msg == (IF bat_val = <<>> THEN <<"Battery read error">> ELSE <<>>)
                      \o (IF dist_val = <<>> THEN <<"Ultrasonic read error">> ELSE <<>>)
       IN  resp' = [status |-> 200, ok |-> err_msg = <<>>, battery |-> bat_val,
                    distance |-> dist_val, error |-> err_msg, message |-> None]
    /\ UNCHANGED <<shared, lock, cfg, worker, spc, seq, hist, stops>>

\* ------------------------------------------------------------ shutdown
\* The finally block of __main__, lines 919-930, entered when app.run returns:
\* one critical section sets thread_running = False, calls servo.relax() and
\* buzzer.set_state(False), and then calls led_off(), which waits for the
\* (non-reentrant) lock this block holds: the block never ends and the lock
\* is never released.  STOP_ALL is not assigned.
shutdown ==
    /\ thread_running
    /\ lock = "free"
    /\ lock' = "shutdown"
    /\ thread_running' = FALSE
    /\ act' = <<RelaxCall("shutdown"), Call("set_state", "shutdown", "off", 0, <<>>, 0, 0)>>
    /\ UNCHANGED <<STOP_ALL, current_cmd, body_z, pan_angle, tilt_angle, active_preset,
                   cfg, worker, spc, seq, hist, stops, resp>>

\* ------------------------------------------------------------ specification
StopAllStep ==
    \/ stopall_begin
    \/ stopall_relax
    \/ stopall_clear_cmd
    \/ stopall_end

WorkerStep ==
    \/ worker_relax
    \/ worker_idle
    \/ worker_read
    \/ worker_gait
    \/ worker_pose
    \/ worker_move
    \/ worker_gate
    \/ worker_write
    \/ worker_clear

SeqStep ==
    \/ \E i \in SeqIds : preset_start(i)
    \/ \E i \in SeqIds : seq_effect(i)
    \/ \E i \in SeqIds : seq_led(i)
    \/ \E i \in SeqIds : seq_set_cmd(i)
    \/ \E i \in SeqIds : seq_if_stop(i)
    \/ \E i \in SeqIds : seq_finally(i)

\* The threads the sequencers start: buzzer_pulse._run, led_rainbow._rainbow
\* and led_breathe._breathe.
KidStep ==
    \/ \E i \in KidSlots(seq) : seq_if_stop(i)
    \/ \E i \in KidSlots(seq) : fx_led(i)
    \/ \E i \in KidSlots(seq) : fx_end(i)
    \/ \E i \in KidSlots(seq) : fx_buzz(i)

SeqPtStep ==
    \/ \E i \in SeqIds : seq_pt_lock(i)
    \/ \E i \in SeqIds : seq_pt_gate(i)
    \/ \E i \in SeqIds : seq_pt_write(i)

\* Spec: the request handlers /cmd, /stopall and /pt against the worker.
Next ==
    \/ \E key \in KeyInputs : cmd_route(key)
    \/ \E c \in PtInputs, step \in StepInputs : pt_route(c, step)
    \/ StopAllStep
    \/ WorkerStep

Spec == Init /\ [][Next]_vars

\* No thread started by a sequencer is alive and none is still to start:
\* the moments at which /preset requests arrive in SpecReject and SpecPair.
EffectsQuiet ==
    /\ KidSlots(seq) = {}
    /\ \A i \in ReqSlots(seq) : ~EffectsAhead(seq[i])

\* SpecPreset: MaxPresetReq requests on the routes /preset, /stopall, /cmd,
\* /pt, /led, /buzzer and /sensors against the worker, the sequencer of the
\* preset, the threads it starts and the effect threads of /led and /buzzer.
\* A /stopall arrives at any moment; a /preset request is the first of the
\* run or arrives while a stop stands; a /preset request with an unknown
\* name and a request on another route arrive while no sequencer or effect
\* thread is alive.
InitPreset == InitWith(MaxPresetReq)

\* The /sensors reads of these runs: a battery read that returns a number,
\* an ultrasonic read that returns a number or raises.
PresetBatteryReads == {read \in BatteryReads : read.name = "number"}
PresetDistanceReads == {read \in DistanceReads : read.name \in {"number", "raises"}}

NoThreads == \A i \in DOMAIN seq : seq[i] = NoThread

NextPreset ==
    \/ \E name \in PresetInputs : (reqs = 0 \/ STOP_ALL) /\ preset_route(name)
    \/ \E name \in PresetUnknownInputs : NoThreads /\ preset_route(name)
    \/ StopAllStep
    \/ \E key \in PresetKeyInputs : NoThreads /\ cmd_route(key)
    \/ \E c \in PresetPtInputs : NoThreads /\ pt_route(c, DEFAULT_STEP)
    \/ \E mode \in PresetLedInputs : NoThreads /\ led_route(mode)
    \/ \E mode \in PresetBuzzerInputs : NoThreads /\ buzzer_route(mode)
    \/ \E bat \in PresetBatteryReads, dist \in PresetDistanceReads :
          NoThreads /\ sensors_route(bat, dist)
    \/ WorkerStep
    \/ SeqStep
    \/ SeqPtStep
    \/ KidStep
    \/ \E i \in SeqIds : fx_led(i)
    \/ \E i \in SeqIds : fx_end(i)
    \/ \E i \in SeqIds : fx_buzz(i)

SpecPreset == InitPreset /\ [][NextPreset]_vars

\* SpecDemos: one /preset request with any name of the registry, /stopall
\* requests, the sequencer and the threads it starts.
NextDemos ==
    \/ \E name \in {"demo1", "demo2", "demo3"} : reqs = 0 /\ preset_route(name)
    \/ StopAllStep
    \/ SeqStep
    \/ SeqPtStep
    \/ KidStep

SpecDemos == InitPreset /\ [][NextDemos]_vars

\* SpecHeight: any number of /cmd and /stopall requests against the worker.
InitHeight == InitWith(0)

NextHeight ==
    \/ \E key \in HeightKeyInputs : cmd_route(key)
    \/ StopAllStep
    \/ WorkerStep

SpecHeight == InitHeight /\ [][NextHeight]_vars

\* SpecLimits: any number of /pt and /stopall requests, under each
\* configuration of the limits that lines 29-37 can load.
InitLimits ==
    /\ InitState(0)
    /\ \E pl \in LimitInputs, tl \in LimitInputs :
         /\ PAN_MIN = pl[1] /\ PAN_MAX = pl[2]
         /\ TILT_MIN = tl[1] /\ TILT_MAX = tl[2]

NextLimits ==
    \/ \E c \in LimitPtInputs, step \in LimitStepInputs : pt_route(c, step)
    \/ StopAllStep

SpecLimits == InitLimits /\ [][NextLimits]_vars

\* SpecFail: /cmd and /stopall against a worker whose actuator calls can fail.
NextFail ==
    \/ \E key \in FailKeyInputs : cmd_route(key)
    \/ StopAllStep
    \/ WorkerStep
    \/ worker_fail

SpecFail == Init /\ [][NextFail]_vars

\* SpecLed: any number of /led, /cmd and /stopall requests against the LED
\* effect threads.
FxStep ==
    \/ \E i \in SeqIds : seq_if_stop(i)
    \/ \E i \in SeqIds : fx_led(i)
    \/ \E i \in SeqIds : fx_end(i)
    \/ \E i \in SeqIds : fx_buzz(i)

NextLed ==
    \/ \E mode \in LedInputs : led_route(mode)
    \/ \E mode \in BuzzerInputs : buzzer_route(mode)
    \/ \E key \in PresetKeyInputs : cmd_route(key)
    \/ StopAllStep
    \/ FxStep

SpecLed == InitHeight /\ [][NextLed]_vars

\* SpecShutdown: /cmd and /stopall against the worker, and the shutdown
\* sequence at any moment.
NextShutdown ==
    \/ \E key \in FailKeyInputs : cmd_route(key)
    \/ StopAllStep
    \/ WorkerStep
    \/ shutdown

SpecShutdown == Init /\ [][NextShutdown]_vars

\* SpecSensors: /sensors requests, whatever the two reads do.  A run is of
\* hexweb7.py, with its /sensors route among /cmd and /stopall requests and
\* the worker, or of the /sensors route of hexweb5.py.
InitSensors ==
    /\ \E p \in {"hexweb5", "hexweb7"} :
         program = p /\ InitProgram(MaxReq, RESET_Z, SeqIds, << >>)
    /\ PAN_MIN = ANGLE_LO /\ PAN_MAX = ANGLE_HI
    /\ TILT_MIN = ANGLE_LO /\ TILT_MAX = ANGLE_HI

NextSensors ==
    \/ /\ program = "hexweb7"
       /\ \/ \E bat \in BatteryReads, dist \in DistanceReads : sensors_route(bat, dist)
          \/ \E key \in FailKeyInputs : cmd_route(key)
          \/ StopAllStep
          \/ WorkerStep
    \/ /\ program = "hexweb5"
       /\ \E bat \in BatteryReads, dist \in DistanceReads : hexweb5_sensors_route(bat, dist)

SpecSensors == InitSensors /\ [][NextSensors]_vars

\* SpecRaise: nothing but raise requests (key "i"), MaxRaise of them.  A run
\* is of hexweb7.py, whose /cmd route writes the command slot for the worker
\* (STOP_ALL is never set, so the worker's relax branch is left out), or of
\* hexweb8.py, whose /cmd route executes the command itself.
InitRaise ==
    /\ \E p \in {"hexweb7", "hexweb8"} :
         program = p /\ InitProgram(MaxRaise, RESET_Z, SeqIds, << >>)
    /\ PAN_MIN = ANGLE_LO /\ PAN_MAX = ANGLE_HI
    /\ TILT_MIN = ANGLE_LO /\ TILT_MAX = ANGLE_HI

NextRaise ==
    \/ /\ program = "hexweb7"
       /\ \/ cmd_route("i")
          \/ worker_idle
          \/ worker_read
          \/ worker_pose
          \/ worker_move
          \/ worker_gate
          \/ worker_write
          \/ worker_clear
    \/ /\ program = "hexweb8"
       /\ \/ hexweb8_cmd_route("i")
          \/ \E q \in BagToSet(flight) : hexweb8_cmd_reply(q)

SpecRaise == InitRaise /\ [][NextRaise]_vars

\* SpecClamp: raise and lower requests against the worker, starting one unit
\* from a height limit: body_z = MAX_Z - 1 (the state after tabletop and two
\* raises have been executed) or MIN_Z + 1 (after 22 lowers from the reset
\* pose), with the worker idle and the slot empty.
ClampStartInputs == {MAX_Z - 1, MIN_Z + 1}
ClampKeyInputs == {"i", "k"}
InitClamp ==
    /\ \E bz \in ClampStartInputs : InitAt(MaxReq, bz)
    /\ PAN_MIN = ANGLE_LO /\ PAN_MAX = ANGLE_HI
    /\ TILT_MIN = ANGLE_LO /\ TILT_MAX = ANGLE_HI

NextClamp ==
    \/ \E key \in ClampKeyInputs : cmd_route(key)
    \/ worker_idle
    \/ worker_read
    \/ worker_pose
    \/ worker_move
    \/ worker_gate
    \/ worker_write
    \/ worker_clear

SpecClamp == InitClamp /\ [][NextClamp]_vars

\* SpecFloor: MaxReq pan/tilt moves under each configuration of the limits.
InitFloor ==
    /\ InitState(MaxReq)
    /\ \E pl \in LimitInputs, tl \in LimitInputs :
         /\ PAN_MIN = pl[1] /\ PAN_MAX = pl[2]
         /\ TILT_MIN = tl[1] /\ TILT_MAX = tl[2]

NextFloor == \E c \in FloorPtInputs, step \in FloorStepInputs : pt_route(c, step)

SpecFloor == InitFloor /\ [][NextFloor]_vars

\* SpecReject: /preset requests with a name of the registry and with one
\* outside it, among /cmd and /stopall requests and the sequencer's steps.
RejectPresetInputs == {"demo1", "demo9"}

NextReject ==
    \/ \E name \in RejectPresetInputs : EffectsQuiet /\ preset_route(name)
    \/ \E key \in PresetKeyInputs : cmd_route(key)
    \/ StopAllStep
    \/ SeqStep
    \/ SeqPtStep
    \/ KidStep

SpecReject == InitPreset /\ [][NextReject]_vars

\* SpecAbort: a /preset request, the first of the run, /stopall requests,
\* the worker, the sequencer and the threads it starts.
NextAbort ==
    \/ \E name \in PresetInputs : reqs = 0 /\ preset_route(name)
    \/ StopAllStep
    \/ WorkerStep
    \/ SeqStep
    \/ SeqPtStep
    \/ KidStep

SpecAbort == InitPreset /\ [][NextAbort]_vars

\* SpecLive: MaxReq /cmd and /stopall requests against the worker, under fair
\* scheduling: the worker thread keeps being scheduled, and a /stopall
\* handler that has started runs to its end.
NextLive ==
    \/ \E key \in FailKeyInputs : cmd_route(key)
    \/ StopAllStep
    \/ WorkerStep

SpecLive == Init /\ [][NextLive]_vars /\ WF_vars(WorkerStep) /\ WF_vars(StopAllStep)

\* SpecFx: any number of /led requests that start an effect thread, with
\* MaxPair thread slots, so that two LED sequences overlap.
FxInputs == {"blink", "police"}

InitFx ==
    /\ InitThreads(0, RESET_Z, PairIds)
    /\ PAN_MIN = ANGLE_LO /\ PAN_MAX = ANGLE_HI
    /\ TILT_MIN = ANGLE_LO /\ TILT_MAX = ANGLE_HI

NextFx ==
    \/ \E mode \in FxInputs : led_route(mode)
    \/ \E i \in PairIds : seq_if_stop(i)
    \/ \E i \in PairIds : fx_led(i)
    \/ \E i \in PairIds : fx_end(i)

SpecFx == InitFx /\ [][NextFx]_vars

\* SpecBodyZ: MaxPresetReq /cmd, /pt, /led and /stopall requests against the
\* worker and the LED effect threads.
BodyZKeyInputs == {"w", "i", "t"}
BodyZPtInputs == {"pan_left"}
BodyZLedInputs == {"blink"}

NextBodyZ ==
    \/ \E key \in BodyZKeyInputs : cmd_route(key)
    \/ \E c \in BodyZPtInputs : pt_route(c, DEFAULT_STEP)
    \/ \E mode \in BodyZLedInputs : led_route(mode)
    \/ \E mode \in BuzzerInputs : buzzer_route(mode)
    \/ StopAllStep
    \/ WorkerStep
    \/ FxStep

SpecBodyZ == InitPreset /\ [][NextBodyZ]_vars

\* SpecOffset: any number of /pt and /stopall requests, under each
\* configuration of servo offsets and pan/tilt limits drawn from the sets
\* below.  The limits file is not validated (lines 29-37), so a configured
\* range can let the tracked angles leave 0..180.
OffsetInputs == {-100, 0, 7, 100}
OffsetConfigs ==
    {<< >>} \cup [{PAN_PORT} -> OffsetInputs] \cup [{PAN_PORT, TILT_PORT} -> OffsetInputs]
OffsetLimitInputs == {<<ANGLE_LO, ANGLE_HI>>, <<-60, 240>>}
OffsetStepInputs == {100}

InitOffset ==
    /\ \E offs \in OffsetConfigs : InitCore(0, RESET_Z, SeqIds, offs)
    /\ \E pl \in OffsetLimitInputs, tl \in OffsetLimitInputs :
         /\ PAN_MIN = pl[1] /\ PAN_MAX = pl[2]
         /\ TILT_MIN = tl[1] /\ TILT_MAX = tl[2]

NextOffset ==
    \/ \E c \in LimitPtInputs, step \in OffsetStepInputs : pt_route(c, step)
    \/ StopAllStep

SpecOffset == InitOffset /\ [][NextOffset]_vars

\* SpecPair: any number of /preset requests, with MaxPair thread slots, so
\* that two sequencers overlap; no /stopall request is made.  A /preset
\* request arrives when the threads the sequencer before it starts have all
\* ended.
InitPair ==
    /\ InitThreads(0, RESET_Z, PairIds)
    /\ PAN_MIN = ANGLE_LO /\ PAN_MAX = ANGLE_HI
    /\ TILT_MIN = ANGLE_LO /\ TILT_MAX = ANGLE_HI

NextPair ==
    \/ \E name \in PresetInputs : EffectsQuiet /\ preset_route(name)
    \/ \E i \in PairIds : preset_start(i)
    \/ \E i \in PairIds : seq_effect(i)
    \/ \E i \in PairIds : seq_led(i)
    \/ \E i \in PairIds : seq_set_cmd(i)
    \/ \E i \in PairIds : seq_if_stop(i)
    \/ \E i \in PairIds : seq_finally(i)
    \/ \E i \in PairIds : seq_pt_lock(i)
    \/ \E i \in PairIds : seq_pt_gate(i)
    \/ \E i \in PairIds : seq_pt_write(i)
    \/ KidStep

SpecPair == InitPair /\ [][NextPair]_vars

\* SpecRigs: MaxRigReq requests on the routes of hexweb8.py (/pt_phone,
\* /pt_head, /cmd, /stopall, /battery, /ultra, /led, /beep), the steps of
\* the threads /led and /beep start, and the replies of /cmd and /led, which
\* read the state again after the lock has been released.
RigInputs == {"center", "relax", "pan_left", "pan_right", "tilt_up", "tilt_down", "nod"}
RigStepInputs == {30}
\* A gait key (also in upper case), raise, tabletop, relax, an unknown key
\* and a request without key.
HexKeyInputs == {"w", "W", "i", "t", "x", "h", None}
\* Battery reads on both sides of each threshold, no reading, and a failed read.
VoltageInputs ==
    {Call("read_battery_voltage", "battery_route", "number", 0, <<>>, 0, v) :
        v \in {0, LOW_VOLTS - 1, LOW_VOLTS, FULL_VOLTS}}
    \cup {Call("read_battery_voltage", "battery_route", "raises", 0, <<>>, 0, 0)}
\* Distance reads on both sides of each threshold, and a read that returns a tuple.
DistanceInputs ==
    {Call("get_distance", "ultra_route", "number", 0, <<>>, 0, d) :
        d \in {0, VERY_CLOSE_CM - 1, VERY_CLOSE_CM, CLOSE_CM}}
    \cup {Call("get_distance", "ultra_route", "tuple", 0, <<>>, 0, CLOSE_CM)}
HexLedInputs == {"off", "solid", "red", "green", "blue", "alert", "Alert", "strobe", None}
\* r, g, b of the request: above, below and inside 0..255.
HexRgbInputs == {<<300, -5, 7>>}
BeepInputs == {"short", "long", "triple", "hum", None}

HexThreadStep ==
    \/ \E i \in SeqIds : alert_apply_color(i)
    \/ \E i \in SeqIds : beep_set_state(i)
    \/ \E i \in SeqIds : fx_end(i)

NextRigs ==
    \/ \E c \in RigInputs, step \in RigStepInputs : pt_phone_route(c, step)
    \/ \E c \in RigInputs, step \in RigStepInputs : pt_head_route(c, step)
    \/ \E key \in HexKeyInputs : hexweb8_cmd_route(key)
    \/ hexweb8_stopall_route
    \/ \E read \in VoltageInputs : battery_route(read)
    \/ \E read \in DistanceInputs : ultra_route(read)
    \/ \E mode \in HexLedInputs, rgb \in HexRgbInputs : hexweb8_led_route(mode, rgb)
    \/ \E mode \in BeepInputs : beep_route(mode)
    \/ \E q \in BagToSet(flight) : hexweb8_cmd_reply(q)
    \/ \E q \in BagToSet(flight) : hexweb8_led_reply(q)
    \/ HexThreadStep

\* hexweb8.py loads pan_tilt_limits.json and servo_offsets.json as hexweb7.py
\* does (lines 43-60); the run has neither file.
InitRigs ==
    /\ program = "hexweb8"
    /\ InitProgram(MaxRigReq, RESET_Z, SeqIds, << >>)
    /\ PAN_MIN = ANGLE_LO /\ PAN_MAX = ANGLE_HI
    /\ TILT_MIN = ANGLE_LO /\ TILT_MAX = ANGLE_HI

SpecRigs == InitRigs /\ [][NextRigs]_vars

\* SpecLoop: /cmd and /stopall against the worker, the shutdown sequence at
\* any moment and the worker's loop exit, under fair scheduling of the worker
\* thread and of a /stopall handler that has started.
WorkerLoopStep ==
    \/ WorkerStep
    \/ worker_test
    \/ worker_exit

NextLoop ==
    \/ \E key \in FailKeyInputs : cmd_route(key)
    \/ StopAllStep
    \/ WorkerLoopStep
    \/ shutdown

SpecLoop == Init /\ [][NextLoop]_vars /\ WF_vars(WorkerLoopStep) /\ WF_vars(StopAllStep)

\* ------------------------------------------------------------ properties
Calls == {act[k] : k \in DOMAIN act}
MotionOps == {"run_gait", "move_position"}
UnknownKeys == {key \in Keys : map_key_to_cmd(key) = None}
PtMoves == {"center", "pan_left", "pan_right", "tilt_up", "tilt_down"}
Registry == {"demo1", "demo2", "demo3"}
WorkerTick == worker_relax \/ worker_idle \/ worker_read

\* C1: once a stopall request has returned, the worker issues no run_gait or
\* move_position call for a command that was in the slot before that stopall
\* (w_stale: the worker still holds a command it read before a stopall
\* returned).
C1_NoCallAfterStopAll ==
    \A c \in Calls : c.op \in MotionOps => ~w_stale

\* C2: stopall_route does its four effects in one critical section: from its
\* first statement to its last the lock is held by it, Relax is issued inside,
\* at the release STOP_ALL is set and the slot and active_preset are empty, and
\* while it holds the lock no other thread changes a lock-protected field.
C2_StopAllOneCriticalSection ==
    [][ /\ (spc # "idle" => lock = "stopall")
        /\ (spc = "relax" /\ spc' = "slot" => act' = <<RelaxCall("stopall")>>)
        /\ (lock = "stopall" /\ lock' = "free" =>
               STOP_ALL' /\ current_cmd' = None /\ active_preset' = None)
        /\ (lock = "stopall" /\ ~StopAllStep =>
               UNCHANGED <<STOP_ALL, current_cmd, body_z, pan_angle, tilt_angle,
                           active_preset>>)
      ]_vars

\* A stopall has just returned while a preset sequencer is still running: it
\* found active_preset set and left it, the slot and the lock cleared.
C2_Witness ==
    /\ spc = "idle" /\ lock = "free" /\ STOP_ALL
    /\ current_cmd = None /\ active_preset = None
    /\ \E i \in SeqIds : seq[i].pc > 0
    /\ reqs = 2

\* C3: latest wins: a command that a later SetCommand overwrote in the slot
\* before the worker read it is never executed by the worker.
C3_LatestWins ==
    \A c \in Calls : c.op \in MotionOps => c.id \notin overwritten

\* The worker executes the command of a request whose predecessor was
\* overwritten unread.
C3_Witness ==
    \E c \in Calls : c.op \in MotionOps /\ c.id # 0 /\ (c.id - 1) \in overwritten

\* C4: no servo-angle write reaches the real actuator while STOP_ALL is set.
C4_NoWriteWhileStopped ==
    \A c \in Calls : c.op = "set_servo_angle" => ~STOP_ALL

\* C5: a command that stopall removed from the slot before the worker read it
\* is never executed, and the slot is empty from stopall's clearing statement
\* until the lock is released.
C5_CancelledNeverRuns ==
    /\ \A c \in Calls : c.op \in MotionOps => c.id \notin cancelled
    /\ spc = "preset" => current_cmd = None

\* After a stopall removed an unread command, the worker's next tick relaxed
\* the servos instead of executing it.
C5_Witness ==
    /\ cancelled # {}
    /\ wpc = "tick"
    /\ act = <<RelaxCall("worker")>>

\* C6: after a stopall, a SetCommand with a known name is followed, with no
\* request in between, by a worker tick that executes that command.
C6_ResumeExecutesCommand ==
    [][ WorkerTick /\ resume # 0 => wpc' = "exec" /\ w_id' = resume ]_vars

\* C7: a SetCommand with an unknown name changes none of the slot, STOP_ALL,
\* body_z, the pan/tilt angles and active_preset.
C7_UnknownKeyNoMutation ==
    [][ (\E key \in UnknownKeys : cmd_route(key)) =>
          UNCHANGED <<current_cmd, STOP_ALL, body_z, pan_angle, tilt_angle,
                      active_preset>> ]_vars

\* C8 as stated: a pan/tilt move request that starts with STOP_ALL set
\* returns with STOP_ALL cleared.
C8_PtClearsStop ==
    [][ (\E c \in PtMoves, step \in StepInputs : pt_route(c, step)) /\ STOP_ALL
          => ~STOP_ALL' ]_vars

\* C8 amended: a newly issued movement command (a /cmd request with a mapped
\* key) returns with STOP_ALL cleared; a newly issued pan/tilt command
\* (pan-left, pan-right, tilt-up, tilt-down, center) does not clear it:
\* STOP_ALL is the same when the /pt request returns as when it started.
C8_PtKeepsStop ==
    [][ /\ (\E key \in Keys \ UnknownKeys : cmd_route(key)) => ~STOP_ALL'
        /\ (\E c \in PtMoves, step \in StepInputs : pt_route(c, step))
              => STOP_ALL' = STOP_ALL
      ]_vars

\* A pan/tilt move request ran with STOP_ALL set: its servo writes were
\* dropped by the gate and STOP_ALL is still set.
C8_Witness ==
    /\ STOP_ALL
    /\ \E c \in Calls : c.op = "dropped" /\ c.by = "pt"

\* C9 as stated: STOP_ALL goes from true to false only in a step of a /cmd or
\* a /pt request.
C9_ClearedOnlyByCmdOrPt ==
    [][ STOP_ALL /\ ~STOP_ALL' =>
          \/ \E key \in Keys : cmd_route(key)
          \/ \E c \in PtCmds, step \in StepInputs : pt_route(c, step) ]_vars

\* C9 amended: STOP_ALL goes from true to false only in a step of a /cmd
\* request, of a /pt request or of a /preset request with a registered name;
\* no worker tick, no step a thread takes after a sleep, no /led, /buzzer or
\* /sensors request and no /stopall step clears it.
C9_ClearedOnlyByCmdPtOrPreset ==
    [][ STOP_ALL /\ ~STOP_ALL' =>
          \/ \E key \in Keys : cmd_route(key)
          \/ \E c \in PtCmds, step \in StepInputs : pt_route(c, step)
          \/ \E name \in Registry : preset_route(name) ]_vars

\* A /preset request found STOP_ALL set and cleared it.
C9_Witness ==
    /\ cleared_by = "run_preset"
    /\ ~STOP_ALL

\* C10: MIN_Z <= body_z <= MAX_Z in every reachable state.
C10_BodyZInRange ==
    /\ MIN_Z <= body_z
    /\ body_z <= MAX_Z

\* A raise was executed at the upper limit: body_z is MAX_Z and the pose
\* move carries MAX_Z.
C10_Witness ==
    /\ body_z = MAX_Z
    /\ act = <<MoveCall("raise", 0, MAX_Z)>>

\* C11: in every reachable state, under every configuration of the limits with
\* PAN_MIN <= PAN_MAX and TILT_MIN <= TILT_MAX, the tracked pan angle lies in
\* [PAN_MIN, PAN_MAX] and the tracked tilt angle in [TILT_MIN, TILT_MAX], the
\* initial state and the state after "center" included.
C11_AnglesWithinLimits ==
    PAN_MIN <= PAN_MAX /\ TILT_MIN <= TILT_MAX
    => /\ PAN_MIN <= pan_angle /\ pan_angle <= PAN_MAX
       /\ TILT_MIN <= tilt_angle /\ tilt_angle <= TILT_MAX

\* The worker's run_gait or move_position call has been issued and has not
\* returned yet: its servo writes are being made.
WorkerCallInFlight == wpc \in {"gate", "write"}

\* C12: no two actuator calls on the servo controller are in flight at once:
\* while a run_gait or move_position call of the worker is in flight no other
\* thread issues a relax or a servo-angle write that reaches the controller.
C12_NoOverlappingCalls ==
    WorkerCallInFlight
    => \A c \in Calls : c.op \in {"relax", "set_servo_angle"} => c.by = "worker"

\* A step of sequencer thread i that acts on the robot: a write to the command
\* slot, a pan/tilt update or servo write, a LED or buzzer call.
PresetAction(i) ==
    \/ seq_set_cmd(i)
    \/ seq_effect(i)
    \/ seq_led(i)
    \/ seq_pt_lock(i)
    \/ seq_pt_gate(i)
    \/ seq_pt_write(i)

\* C13: a stopall while a preset runs clears active_preset, and once the
\* sequencer has found STOP_ALL set at a stop check it takes no further
\* action on the robot (it only ends).
C13_NoActionAfterAbort ==
    [][ /\ (lock = "stopall" /\ lock' = "free" => active_preset' = None)
        /\ \A i \in SeqIds : seq[i].stopped => ~PresetAction(i)
      ]_vars

\* What a client can observe of the shared state.
Observable == <<STOP_ALL, current_cmd, active_preset, body_z, pan_angle, tilt_angle>>

\* C14: stopall is idempotent on the observable state.  A stopall returns with
\* the stop engaged, the slot empty and the preset cleared, and with body_z
\* and the pan/tilt angles as it found them; a stopall that runs on a state
\* of that form (the state a preceding stopall left) changes nothing in it.
C14_StopAllIdempotent ==
    [][ /\ (lock = "stopall" /\ lock' = "free"
               => STOP_ALL' /\ current_cmd' = None /\ active_preset' = None)
        /\ (StopAllStep => UNCHANGED <<body_z, pan_angle, tilt_angle>>)
        /\ (StopAllStep /\ STOP_ALL /\ current_cmd = None /\ active_preset = None
               => UNCHANGED Observable)
      ]_vars

\* The second of two consecutive stopall requests has just returned.
C14_Witness ==
    /\ stops = 2 /\ spc = "idle" /\ lock = "free"
    /\ STOP_ALL /\ current_cmd = None /\ active_preset = None

\* C15: a failing actuator call of the worker (gait step, pose move or relax)
\* is a skipped tick: the worker thread never ends because of it.
C15_WorkerSurvivesActuatorError == wpc # "dead"

\* C16: after executing a command the worker clears the slot only if the slot
\* still holds the command instance it executed: a command another request
\* wrote while the worker was executing (cmd_id # w_id), of whatever name,
\* stays in the slot.
C16_ClearOnlyExecutedInstance ==
    [][ worker_clear /\ current_cmd # None /\ cmd_id # w_id
          => current_cmd' = current_cmd ]_vars

\* C17: between two consecutive LED writes of one effect sequence there is a
\* stop check, so that a sequence makes no non-off LED write once STOP_ALL is
\* set: a non-off write made while STOP_ALL is set can only be the one that
\* directly follows the stop check the stop slipped past.
C17_StopCheckBeforeEveryWrite ==
    [][ \A i \in SeqIds :
          fx_led(i) /\ At(i, "led_solid") /\ STOP_ALL
            => Script(seq[i].name)[seq[i].pc - 1].op = "if_stop" ]_vars

\* C18: once the shutdown sequence has run, thread_running is false, STOP_ALL
\* is true and the final relax has been issued.
C18_ShutdownForcesStop ==
    /\ (~thread_running => STOP_ALL)
    /\ (lock = "shutdown" => ~thread_running)

\* C19: when one of the two sensor reads of a /sensors request fails and the
\* other succeeds, the request does not fail as a whole (status 200); the
\* response carries the value of the sensor that succeeded, null for the one
\* that failed and an error message naming the failed sensor; and the
\* ultrasonic sensor is read even if the battery read failed.
SensorCalls == {c \in Calls : c.by = "sensors"}
ReadFailed(c) == c.name \in {"empty", "text", "raises"}
C19_PartialSensorFailure ==
    SensorCalls # {} =>
        /\ Len(act) = 2
        /\ act[1].op = "read_battery_voltage"
        /\ act[2].op = "get_distance"
        /\ ReadFailed(act[1]) # ReadFailed(act[2]) =>
              /\ resp.status = 200
              /\ resp.battery = IF ReadFailed(act[1]) THEN Null ELSE <<act[1].val>>
              /\ resp.distance = IF ReadFailed(act[2]) THEN Null ELSE <<act[2].val>>
              /\ resp.error = IF ReadFailed(act[1]) THEN <<"Battery read error">>
                                                     ELSE <<"Ultrasonic read error">>
\* C20: starting from body_z = 15, once five raise requests have been made
\* and have been dealt with (no reply is outstanding, the worker is idle
\* again and the slot is empty), body_z = 25: each of the five requests has
\* produced its own move_position call, carrying 17, 19, 21, 23 and 25.
C20_FiveRaisesReach25 ==
    reqs = 5 /\ wpc = "tick" /\ current_cmd = None /\ flight = EmptyBag
        => body_z = RESET_Z + 5 * HEIGHT_STEP

\* C21: a raise whose unclamped result exceeds MAX_Z sets body_z to exactly
\* MAX_Z, a lower whose unclamped result is below MIN_Z sets it to exactly
\* MIN_Z, and the worker then issues exactly one move_position(0, 0, body_z)
\* carrying the clamped value and goes on (no error).
C21_RelativeHeightClamped ==
    [][/\ wpc = "exec" /\ wpc' = "move" /\ cmd = "raise" /\ body_z + HEIGHT_STEP > MAX_Z
            => body_z' = MAX_Z /\ z' = MAX_Z
       /\ wpc = "exec" /\ wpc' = "move" /\ cmd = "lower" /\ body_z - HEIGHT_STEP < MIN_Z
            => body_z' = MIN_Z /\ z' = MIN_Z
       /\ wpc = "move" /\ wpc' # "move"
            => /\ act' = <<MoveCall(cmd, w_id, body_z)>>
               /\ body_z \in MIN_Z..MAX_Z
               /\ wpc' = "gate"]_vars
\* Started below MAX_Z with an even body_z, the odd MAX_Z is only reached by
\* a raise that was clamped.
C21_Witness ==
    /\ body_z = MAX_Z
    /\ wpc = "gate"
    /\ cmd = "raise"
    /\ act = <<MoveCall("raise", w_id, MAX_Z)>>

\* C22: with a positive step, pan-left never takes the pan angle below
\* PAN_MIN, and from pan_angle = PAN_MIN a pan-left leaves it at PAN_MIN;
\* likewise pan-right at PAN_MAX, tilt-up at TILT_MIN and tilt-down at
\* TILT_MAX.
C22_FloorsAndStays ==
    [][\A step \in FloorStepInputs :
         /\ pt_route("pan_left", step) =>
               pan_angle' >= PAN_MIN /\ (pan_angle = PAN_MIN => pan_angle' = PAN_MIN)
         /\ pt_route("pan_right", step) =>
               pan_angle' <= PAN_MAX /\ (pan_angle = PAN_MAX => pan_angle' = PAN_MAX)
         /\ pt_route("tilt_up", step) =>
               tilt_angle' >= TILT_MIN /\ (tilt_angle = TILT_MIN => tilt_angle' = TILT_MIN)
         /\ pt_route("tilt_down", step) =>
               tilt_angle' <= TILT_MAX /\ (tilt_angle = TILT_MAX => tilt_angle' = TILT_MAX)]_vars
\* Four requests with step 30 under the default limits that end with the pan
\* angle at 0 and the tilt angle untouched are four pan-lefts: the fourth
\* started at PAN_MIN.
C22_Witness ==
    /\ reqs = 4
    /\ PAN_MIN = ANGLE_LO /\ PAN_MAX = ANGLE_HI
    /\ pan_angle = PAN_MIN
    /\ tilt_angle = CENTER_ANGLE
    /\ act = <<ServoCall("pt", PAN_PORT, PAN_MIN), ServoCall("pt", TILT_PORT, CENTER_ANGLE)>>

\* C23: a /preset request whose name is outside the registry is answered
\* with an error status and has no effect: no sequencer is started, and
\* active_preset, STOP_ALL and the command slot are unchanged.
C23_UnknownPresetRejected ==
    [][\A name \in PresetNames \ Registry :
         preset_route(name) =>
             /\ resp'.status = 400 /\ ~resp'.ok
             /\ act' = <<>>
             /\ UNCHANGED <<seq, active_preset, STOP_ALL, current_cmd>>]_vars
\* An unknown preset was rejected after a /stopall had returned: the stop
\* still stands.
C23_Witness ==
    /\ resp = Reply(400, FALSE, "Unknown preset")
    /\ STOP_ALL
    /\ stops = 0
    /\ lock = "free"

\* The modes of the inputs that led_route does not know once it has
\* normalised them (a missing mode is "solid", letters are lowered).
UnknownLedModes == {mode \in LedInputs : mode_or(mode, "solid") \notin LedModes}

\* C24: a /led request with an unknown mode is rejected with no effect: no
\* LED write is issued and no LED sequence is started.
C24_UnknownModeNoEffect ==
    [][\A mode \in UnknownLedModes :
         led_route(mode) => act' = <<>> /\ UNCHANGED seq /\ ~resp'.ok]_vars

\* C25: after a /stopall has returned, the next stop check of every
\* sequencer that was running at that time finds STOP_ALL set (and the
\* sequencer leaves its loop), whatever requests arrive in between.
C25_NextCheckSeesStop ==
    [][\A i \in SeqIds :
         seq_if_stop(i) /\ seq[i].owes =>
             STOP_ALL /\ seq'[i].stopped /\ seq'[i].pc = Cur(i).to]_vars

\* C26: when a /preset request with a name of the registry returns (its
\* sequencer thread has been started and the reply is made), active_preset
\* is that name; when the preset's sequencer ends (its finally block, reached
\* after the last step or after a stop), active_preset is None.
C26_ActivePresetAtReturn ==
    [][/\ \A i \in SeqIds : preset_start(i) => active_preset' = seq[i].name
       /\ \A i \in SeqIds : seq[i].pc # 0 /\ seq'[i].pc = 0 /\ seq[i].name \in Registry
                                => active_preset' = None]_vars

\* C27: a worker tick that finds STOP_ALL set calls relax, empties the
\* command slot, issues no run_gait or move_position call, leaves STOP_ALL
\* set and goes back to the top of the loop.
C27_StoppedTickRelaxes ==
    [][wpc = "tick" /\ STOP_ALL /\ WorkerTick =>
           /\ act' = <<RelaxCall("worker")>>
           /\ current_cmd' = None
           /\ STOP_ALL'
           /\ wpc' = "tick"]_vars
\* demo1 found the stop at one of its checks and then wrote "reset" into the
\* slot (instruction 23) with STOP_ALL still set; the worker's tick relaxed
\* and emptied the slot.
C27_Witness ==
    /\ reqs = 2 /\ stops = 1
    /\ STOP_ALL
    /\ \E i \in SeqIds : seq[i].name = "demo1" /\ seq[i].pc = 24 /\ seq[i].stopped
    /\ current_cmd = None
    /\ act = <<RelaxCall("worker")>>

\* C28: at most one physical action per worker tick.  A tick that finds the
\* slot empty issues no call; a tick that read a command issues exactly one
\* call, run_gait for a gait command or move_position for a pose command,
\* between reading the slot and clearing it; a relax of the worker comes only
\* from a tick that issues nothing else and reads no command.
WorkerMotion(calls) == {k \in DOMAIN calls : calls[k].op \in MotionOps}
WorkerRelax(calls) == {k \in DOMAIN calls : calls[k] = RelaxCall("worker")}
C28_OneActionPerTick ==
    [][/\ wpc = "tick" /\ WorkerTick /\ ~STOP_ALL /\ current_cmd = None
            => act' = <<>> /\ wpc' = "tick"
       /\ wpc = "tick" => wpc' \in {"tick", "exec"}
       /\ wpc = "exec" => wpc' \in {"exec", "move", "gate"}
       /\ wpc = "move" => wpc' \in {"move", "gate"}
       /\ wpc \in {"gate", "write", "clear"} => wpc' \in {"gate", "write", "clear", "tick"}
       /\ wpc = "exec" /\ wpc' = "gate"
            => cmd \in GaitCmds /\ act' = <<GaitCall(cmd, w_id, GaitData(cmd))>>
       /\ wpc = "exec" /\ wpc' = "move" => cmd \in PoseCmds /\ WorkerMotion(act') = {}
       /\ wpc = "move" /\ wpc' = "gate" => act' = <<MoveCall(cmd, w_id, z)>>
       /\ WorkerMotion(act') # {} => wpc \in {"exec", "move"} /\ wpc' = "gate"
       /\ WorkerRelax(act') # {}
            => wpc = "tick" /\ wpc' = "tick" /\ act' = <<RelaxCall("worker")>>]_vars
\* The worker has issued the one run_gait of a tick that read "fwd".
C28_Witness ==
    /\ wpc = "gate"
    /\ cmd = "fwd"
    /\ act = <<GaitCall("fwd", w_id, GaitData("fwd"))>>
    /\ ~STOP_ALL

\* C29: every read of STOP_ALL is made by a thread that holds the shared
\* lock.  A step inside a critical section of its own can only be taken while
\* no other thread holds the lock, so: whenever the worker's gate, a
\* sequencer's stop check or a sequencer's gate reads the flag, the lock is
\* not held by another thread.
ReadsStopFlag ==
    \/ worker_gate
    \/ \E i \in SeqIds : seq_if_stop(i)
    \/ \E i \in SeqIds : seq_pt_gate(i)
C29_StopFlagReadUnderLock == [][ReadsStopFlag => lock = "free"]_vars

\* C30: every hardware call (run_gait, move_position, a servo-angle write,
\* relax) is made by a thread that holds the shared lock: no such call is
\* issued by one thread while another thread holds the lock.
HardwareOps == {"run_gait", "move_position", "set_servo_angle", "relax"}
C30_HardwareCallsUnderLock ==
    [][\A k \in DOMAIN act' :
         act'[k].op \in HardwareOps => lock = "free" \/ act'[k].by = lock]_vars

\* C31: under fair scheduling, a known command that is in the slot with
\* STOP_ALL false, that the worker has not read yet and that no further
\* request follows (all MaxReq requests have been made) is eventually
\* executed: the worker issues the run_gait or move_position call for it.
C31_CommandEventuallyExecuted ==
    \A n \in 1..MaxReq :
        (reqs = quota /\ cmd_id = n /\ current_cmd # None /\ ~cmd_read /\ ~STOP_ALL)
            ~> (\E c \in Calls : c.op \in MotionOps /\ c.id = n)

\* C32: the worker leaves its loop only when thread_running is false (while
\* thread_running is true the worker has not left the loop), and once the
\* shutdown sequence has set thread_running to false the worker eventually
\* leaves its loop, under fair scheduling.
C32_WorkerLoopTermination ==
    /\ [](thread_running => wpc # "done")
    /\ (~thread_running ~> wpc = "done")

\* C35: the shutdown sequence terminates: whenever it holds the lock it can
\* take its next step (led_off, after which the lock is released), so the
\* lock is never held with no step of its holder enabled.
C35_ShutdownTerminates == lock = "shutdown" => ENABLED shutdown_led_off

\* The LED writes thread i's script has before / from its current position.
LedWriteOps == {"led_solid", "fx_off"}
HasWritten(i) ==
    seq[i].pc > 0 /\ \E k \in 1..(seq[i].pc - 1) : Script(seq[i].name)[k].op \in LedWriteOps
WritesNext(i) == seq[i].pc > 0 /\ Cur(i).op \in LedWriteOps
LedWriteBy(i) == \E c \in Calls : c.op = "color_wipe" /\ c.id = i

\* C33: LED sequences are not mutually exclusive.  While one effect thread
\* runs and a thread slot is free, a /led request for a sequence is accepted;
\* starting it leaves the running threads as they are; a step of one effect
\* thread leaves every other thread as it is; and with STOP_ALL false every
\* step of a thread moves it to its next instruction until its function
\* returns at "end", so both sequences run to completion side by side.
C33_EffectsNotExclusive ==
    /\ []((\E i \in PairIds : seq[i].pc = 0) => \A mode \in FxInputs : ENABLED led_route(mode))
    /\ [][\A i \in PairIds :
            /\ seq[i].pc > 0 /\ seq'[i] # seq[i]
                 => /\ \A j \in PairIds \ {i} : seq'[j] = seq[j] \/ seq[j].pc = 0
                    /\ \/ seq'[i].pc = seq[i].pc + 1
                       \/ Cur(i).op = "end" /\ seq'[i] = NoThread
            /\ seq[i].pc = 0 /\ seq'[i].pc # 0
                 => \A j \in PairIds \ {i} : seq'[j] = seq[j]]_vars

\* Reached: thread 1 has written a colour, thread 2 has just written one, and
\* the next step of thread 1 is its next write: a write of the second
\* sequence between two writes of the first.
C33_Witness ==
    /\ HasWritten(1) /\ WritesNext(1)
    /\ LedWriteBy(2)
    /\ seq[1].name = "blink" /\ seq[2].name = "blink"

PhoneRigAction == \E c \in RigInputs, step \in RigStepInputs : pt_phone_route(c, step)
HeadRigAction == \E c \in RigInputs, step \in RigStepInputs : pt_head_route(c, step)
PhoneRelax == \E step \in RigStepInputs : pt_phone_route("relax", step)

\* C34: the two rigs of hexweb8.py track their angles independently: a
\* /pt_phone request leaves head_pan_angle and head_tilt_angle unchanged, a
\* /pt_head request leaves phone_pan_angle and phone_tilt_angle unchanged, and
\* a relax on the phone rig leaves all four angles unchanged.
C34_RigsIndependent ==
    [][/\ PhoneRigAction => UNCHANGED <<head_pan_angle, head_tilt_angle>>
       /\ HeadRigAction => UNCHANGED <<phone_pan_angle, phone_tilt_angle>>
       /\ PhoneRelax => UNCHANGED rigs]_vars

\* Reached: both rigs have been moved away from the centre to different
\* angles, and the last request was a relax on the phone rig.
C34_Witness ==
    /\ phone_pan_angle = 60 /\ phone_tilt_angle = 90
    /\ head_pan_angle = 90 /\ head_tilt_angle = 120
    /\ act = <<RelaxCall("pt_phone")>>

\* C36: while a preset sequencer is running and no /stopall has been called
\* since it started (SpecPair makes no /stopall request at all),
\* active_preset is not None: a sequencer that finishes does not clear the
\* active_preset of another one that is still running.
C36_ActivePresetWhileRunning ==
    (\E i \in PairIds : seq[i].pc # 0 /\ seq[i].name \in Registry) => active_preset # None

\* C37: the tracked pan and tilt angles equal the angles last forwarded to
\* the servos: a /pt request whose servo writes the stop gate drops leaves
\* pan_angle and tilt_angle unchanged.
C37_DroppedWriteKeepsTracked ==
    [][(\E k \in DOMAIN act' : act'[k].op = "dropped" /\ act'[k].by = "pt")
          => pan_angle' = pan_angle /\ tilt_angle' = tilt_angle]_vars

\* C38: body_z changes only in the step in which the worker executes a
\* height/pose command (raise, lower, tabletop, reset): a /cmd request, the
\* execution of a gait command, every step of /stopall, a /pt request, a /led
\* request and the steps of the effect threads leave body_z unchanged.
C38_BodyZChangesOnlyOnPose ==
    [][/\ body_z' # body_z => worker_pose /\ cmd \in PoseCmds
       /\ \/ \E key \in BodyZKeyInputs : cmd_route(key)
          \/ worker_gait
          \/ StopAllStep
          \/ \E c \in BodyZPtInputs : pt_route(c, DEFAULT_STEP)
          \/ \E mode \in BodyZLedInputs : led_route(mode)
          \/ \E mode \in BuzzerInputs : buzzer_route(mode)
          \/ FxStep
          => body_z' = body_z]_vars

\* Reached: the worker has executed a tabletop command, and a /cmd request
\* for a raise has been made since and is still waiting in the slot.
C38_Witness ==
    /\ body_z = TABLETOP_Z
    /\ current_cmd = "raise" /\ ~cmd_read
    /\ wpc = "tick"

\* The servo writes of the last step (forwarded or dropped by the gate), the
\* tracked angle each carries and the offset configured for its port.
ServoWrites == {c \in Calls : c.op \in {"set_servo_angle", "dropped"}}
TrackedAt(port) == IF port = PAN_PORT THEN pan_angle ELSE tilt_angle
OffsetOf(port) == IF port \in DOMAIN OFFSETS THEN OFFSETS[port] ELSE 0

\* C39: every angle handed to the servo-angle setter (the result of
\* with_offset on the tracked angle) is an integer in [0, 180], and equals
\* angle + offset whenever that sum is in [0, 180] already.
C39_WithOffsetInRange ==
    \A c \in ServoWrites :
        /\ c.val \in ANGLE_LO..ANGLE_HI
        /\ TrackedAt(c.port) + OffsetOf(c.port) \in ANGLE_LO..ANGLE_HI
             => c.val = TrackedAt(c.port) + OffsetOf(c.port)

\* Reached: one request wrote the pan servo with a sum above 180, saturated
\* to 180, and the tilt servo with a sum in range, shifted by its offset.
C39_Witness ==
    /\ \E c \in ServoWrites :
         /\ c.op = "set_servo_angle" /\ c.port = PAN_PORT
         /\ pan_angle + OffsetOf(PAN_PORT) > ANGLE_HI /\ c.val = ANGLE_HI
    /\ \E c \in ServoWrites :
         /\ c.op = "set_servo_angle" /\ c.port = TILT_PORT
         /\ OffsetOf(TILT_PORT) = 7 /\ c.val = tilt_angle + 7 /\ tilt_angle # CENTER_ANGLE

=============================================================================
